---------------------------- MODULE Spec2Model ----------------------------
(***************************************************************************)
(* A model of the call-pattern engine of unimock: the fluent pattern       *)
(* builder (src/src/build.rs), the responder selection                     *)
(* (src/src/call_pattern.rs, src/src/eval.rs), the per-call evaluation     *)
(* (src/src/eval.rs) and the verification of the call counts.              *)
(*                                                                         *)
(* Sequences are 1-based here; response indices, call counters, global     *)
(* order positions and the reported pat_index are 0-based as in the code.  *)
(***************************************************************************)
EXTENDS Integers, Sequences, FiniteSets, TLC

(* ------------------------------ bounds -------------------------------- *)

\* patterns registered in one instance
MaxPatterns == 2
\* calls made on an instance built from a tuple of clauses
MaxCalls == 3
\* responder stages of one pattern (returns .. then .. returns ..)
MaxStages == 3
\* the argument of n_times / at_least_times
MaxTimes == 3
\* calls made on an instance built from one clause
SeriesCalls == 7
\* calls made on an instance of several quantified clauses
OrderCalls == 1

\* threads calling into one instance, and the calls they make in all
NumThreads == 2

MaxThreadCalls == 2

\* runs of verification on an instance that stays in use
MaxVerifications == 2

(* ------------------------------ domains ------------------------------- *)

\* function identities (MockFn)
Fns == {"F", "G"}
\* the function identity of the single-clause scenarios
SeriesFns == {"F"}
\* input values of a call
Inputs == {1, 2}
\* a matcher is the set of inputs its predicate accepts
Matchers == {{1}, {2}, {1, 2}}

FallbackModes == {"Error", "Unmock"}

\* the threads that call into one instance
Threads == 1..NumThreads

(* ------------------------- quantification ----------------------------- *)

\* counter::CallCountExpectation::default(): no minimum, not exact
CallCountExpectation_default == [minimum |-> 0, exactness |-> "AtLeast"]

\* a plausible slip: the count is stored, not added
add_to_minimum_assign(ce, delta, exactness) ==
    [minimum |-> delta, exactness |-> exactness]

\* counter::CallCountExpectation::add_to_minimum: the minimum grows by
\* delta and the exactness becomes the one given (build.rs:548-551: then()
\* "sets the exactness to AtLeastPlusOne now", a later quantifier sets it
\* again)
add_to_minimum(ce, delta, exactness) ==
    [minimum |-> ce.minimum + delta, exactness |-> exactness]

\* a plausible slip: an exact expectation checked as a lower bound
is_satisfied_lower_bound(ce, actual) ==
    CASE ce.exactness = "Exact"          -> actual >= ce.minimum
      [] ce.exactness = "AtLeast"        -> actual >= ce.minimum
      [] ce.exactness = "AtLeastPlusOne" -> actual > ce.minimum

\* Quantification.is_satisfied: exact match when Exact, lower bound
\* otherwise; AtLeastPlusOne wants one call more than the minimum
is_satisfied(ce, actual) ==
    CASE ce.exactness = "Exact"          -> actual = ce.minimum
      [] ce.exactness = "AtLeast"        -> actual >= ce.minimum
      [] ce.exactness = "AtLeastPlusOne" -> actual > ce.minimum

(* ----------------------------- responders ----------------------------- *)

\* ValueResponder over StoredValueSlot (cloned on every call) or
\* StoredValueSlotOnce (once = TRUE, moved out by the first call)
ValueResponder(v, once) ==
    [kind |-> "Value", once |-> once, value |-> v, taken |-> FALSE,
     by_input |-> FALSE]

\* the other responder kinds eval.rs distinguishes
OtherResponder(kind, v) ==
    [kind |-> kind, once |-> FALSE, value |-> v, taken |-> FALSE,
     by_input |-> kind = "Closure"]

\* StaticRefClosureResponder: a closure that gives a 'static reference,
\* the same one whatever the inputs (returns_static) or one made from the
\* inputs (answers_leaked_ref)
StaticRefClosureResponder(v, by_input) ==
    [kind |-> "StaticRefClosure", once |-> FALSE, value |-> v,
     taken |-> FALSE, by_input |-> by_input]

ResponderKinds ==
    {"Value", "Closure", "StaticRefClosure", "Borrowable", "Panic", "Unmock"}

(* --------------------------- pattern builder -------------------------- *)

\* a plausible slip: a new builder already expects a call
DynCallPatternBuilder_new_expecting(pattern_match_mode, input_matcher) ==
    [pattern_match_mode     |-> pattern_match_mode,
     input_matcher          |-> input_matcher,
     responders             |-> << >>,
     count_expectation      |-> [minimum |-> 1, exactness |-> "AtLeast"],
     current_response_index |-> 0,
     quantified             |-> << >>]

\* DynCallPatternBuilder::new
DynCallPatternBuilder_new(pattern_match_mode, input_matcher) ==
    [pattern_match_mode     |-> pattern_match_mode,
     input_matcher          |-> input_matcher,
     responders             |-> << >>,
     count_expectation      |-> CallCountExpectation_default,
     current_response_index |-> 0,
     \* history, not a field of the code: the quantify steps made so far
     quantified             |-> << >>]

\* a plausible slip: every responder is filed under response index 0
push_responder_at_zero(b, responder) ==
    [b EXCEPT !.responders =
        Append(@, [response_index |-> 0, responder |-> responder])]

\* BuilderWrapper::push_responder
push_responder(b, responder) ==
    [b EXCEPT !.responders =
        Append(@, [response_index |-> b.current_response_index,
                   responder      |-> responder])]

\* a plausible slip: the count is not added to the expectation
quantify_no_minimum(b, times, exactness) ==
    [b EXCEPT !.count_expectation = add_to_minimum(@, 0, exactness),
              !.current_response_index = @ + times,
              !.quantified = Append(@, [times |-> times, exactness |-> exactness])]

\* a plausible slip: the exactness given is dropped
quantify_at_least(b, times, exactness) ==
    [b EXCEPT !.count_expectation = add_to_minimum(@, times, "AtLeast"),
              !.current_response_index = @ + times,
              !.quantified = Append(@, [times |-> times, exactness |-> exactness])]

\* a plausible slip: the response index stays where it was
quantify_index_kept(b, times, exactness) ==
    [b EXCEPT !.count_expectation = add_to_minimum(@, times, exactness),
              !.quantified = Append(@, [times |-> times, exactness |-> exactness])]

\* BuilderWrapper::quantify (and the history of its counts)
quantify(b, times, exactness) ==
    [b EXCEPT !.count_expectation = add_to_minimum(@, times, exactness),
              !.current_response_index = @ + times,
              !.quantified = Append(@, [times |-> times, exactness |-> exactness])]

(* ------------------------------- state -------------------------------- *)

VARIABLES
    phase,              \* "build", "run", "dropped", "discarded" or "failed"
    chain,              \* the fluent chain in progress: its typestate, its
                        \* BuilderWrapper and the value returns() holds back
    each,               \* the Each of the stub clause in progress
    impls,              \* the registry: per function, its mode and patterns
    current_call_index, \* registration: the next free global order position
    call_index,         \* the instance's global ordered call index
    fallback_mode,      \* FallbackMode of the instance
    ncalls,             \* calls made so far
    last,               \* what the most recent call did
    errors,             \* what verification reported
    verify_in_drop,     \* whether teardown verifies the instance
    verifications,      \* per run of verification, the calls made before it
    threads,            \* per thread, the call it is in and what it has seen
    value_chain         \* the Value Chain: what the borrowed outputs refer to

vars == << phase, chain, each, impls, current_call_index, call_index,
           fallback_mode, ncalls, last, errors, verify_in_drop, verifications,
           threads, value_chain >>

NoChain ==
    [state |-> "None", wrapper |-> "Stolen", f |-> "F",
     builder |-> DynCallPatternBuilder_new("InAnyOrder", {}), value |-> 0]

NoEach == [active |-> FALSE, f |-> "F", patterns |-> << >>]

NoImpl == [present |-> FALSE, pattern_match_mode |-> "InAnyOrder",
           patterns |-> << >>]

NoCall ==
    [f |-> "F", input |-> 0, tag |-> "None", error |-> "None",
     value |-> 0, pat_index |-> -1, order |-> -1]

\* a thread between two calls, before its first: nothing seen yet
IdleThread ==
    [pc |-> "idle", f |-> "F", input |-> 0, pat |-> 0, pos |-> 0,
     order |-> -1, local |-> -1, orders |-> << >>, results |-> << >>]

RECURSIVE SumSeq(_)
SumSeq(seq) == IF seq = << >> THEN 0 ELSE Head(seq) + SumSeq(Tail(seq))

RECURSIVE SumLen(_)
SumLen(seq) ==
    IF seq = << >> THEN 0 ELSE Len(Head(seq).responders) + SumLen(Tail(seq))

\* patterns registered so far, over all functions
NumPatterns ==
    LET RECURSIVE Count(_)
        Count(S) == IF S = {} THEN 0
                    ELSE LET f == CHOOSE x \in S : TRUE
                         IN Len(impls[f].patterns) + Count(S \ {f})
    IN Count(Fns)

\* responders defined so far in the instance under construction
NumResponders ==
    LET RECURSIVE Count(_)
        Count(S) == IF S = {} THEN 0
                    ELSE LET f == CHOOSE x \in S : TRUE
                         IN SumLen(impls[f].patterns) + Count(S \ {f})
    IN Count(Fns) + SumLen(each.patterns)
       + (IF chain.wrapper = "Owned" THEN Len(chain.builder.responders) ELSE 0)

\* every response gets a value of its own, so an output names its responder
FreshValues == {NumResponders + 1}

Init ==
    /\ phase = "build"
    /\ chain = NoChain
    /\ each = NoEach
    /\ impls = [f \in Fns |-> NoImpl]
    /\ current_call_index = 0
    /\ call_index = 0
    /\ fallback_mode = "Error"
    /\ ncalls = 0
    /\ last = NoCall
    /\ errors = {}
    /\ verify_in_drop = TRUE
    /\ verifications = << >>
    /\ threads = [t \in Threads |-> IdleThread]
    /\ value_chain = << >>

(* ------------------------ the fluent builder API ---------------------- *)

\* BuilderWrapper::inner
Inner ==
    IF chain.wrapper = "Owned" THEN chain.builder
    ELSE each.patterns[Len(each.patterns)]

\* a step of the chain: the typestate it moves to, the builder as changed
\* through BuilderWrapper::inner_mut, the value still held back
ChainStep(state, b, value) ==
    /\ chain' = [chain EXCEPT !.state = state, !.value = value,
                              !.builder = IF chain.wrapper = "Owned"
                                          THEN b ELSE @]
    /\ each' = IF chain.wrapper = "Borrowed"
               THEN [each EXCEPT !.patterns[Len(each.patterns)] = b]
               ELSE each

BuildFrame ==
    UNCHANGED << phase, impls, current_call_index, call_index,
                 fallback_mode, ncalls, last, errors, verify_in_drop,
                 verifications, threads,
                    value_chain >>

\* the entry points of MockFn: next_call, some_call and each_call
EntryPoints ==
    { [typestate |-> "DefineResponse",          mode |-> "InOrder"],
      [typestate |-> "DefineResponse",          mode |-> "InAnyOrder"],
      [typestate |-> "DefineMultipleResponses", mode |-> "InAnyOrder"] }

\* with_owned_builder: a clause of its own is begun. sole: the instance is
\* built from this one clause.
with_owned_builder(fns, sole) ==
    /\ phase = "build" /\ chain.state = "None" /\ ~each.active
    /\ NumPatterns < MaxPatterns
    /\ sole => NumPatterns = 0
    /\ \E f \in fns, e \in EntryPoints, im \in Matchers :
          chain' = [state   |-> e.typestate,
                    wrapper |-> "Owned",
                    f       |-> f,
                    builder |-> DynCallPatternBuilder_new(e.mode, im),
                    value   |-> 0]
    /\ UNCHANGED each
    /\ BuildFrame

\* MockFn::stub: Each::new, then the closure works on the Each
Each_new(fns, sole) ==
    /\ phase = "build" /\ chain.state = "None" /\ ~each.active
    /\ NumPatterns < MaxPatterns
    /\ sole => NumPatterns = 0
    /\ \E f \in fns : each' = [active |-> TRUE, f |-> f, patterns |-> << >>]
    /\ UNCHANGED chain
    /\ BuildFrame

\* Each::call: the next pattern of the stub; the chain before it is dropped
Each_call ==
    /\ phase = "build" /\ each.active
    /\ NumPatterns + Len(each.patterns) < MaxPatterns
    /\ \E im \in Matchers :
          each' = [each EXCEPT !.patterns =
                      Append(@, DynCallPatternBuilder_new("InAnyOrder", im))]
    /\ chain' = [NoChain EXCEPT !.state = "DefineMultipleResponses",
                                !.wrapper = "Borrowed", !.f = each.f]
    /\ BuildFrame

\* DefineResponse::returns: the value is held back until it is quantified
DefineResponse_returns(values) ==
    /\ phase = "build" /\ chain.state = "DefineResponse"
    /\ \E v \in values : ChainStep("QuantifyReturnValue", Inner, v)
    /\ BuildFrame

\* DefineResponse::answers: a closure answers the call
DefineResponse_answers(values) ==
    /\ phase = "build" /\ chain.state = "DefineResponse"
    /\ \E v \in values :
          ChainStep("Quantify",
                    push_responder(Inner, OtherResponder("Closure", v)), 0)
    /\ BuildFrame

\* DefineMultipleResponses::answers: a closure answers the call
DefineMultipleResponses_answers(values) ==
    /\ phase = "build" /\ chain.state = "DefineMultipleResponses"
    /\ \E v \in values :
          ChainStep("Quantify",
                    push_responder(Inner, OtherResponder("Closure", v)), 0)
    /\ BuildFrame

\* define_response_common_impl: the responses DefineResponse and
\* DefineMultipleResponses both offer
DefinesResponse == chain.state \in {"DefineResponse", "DefineMultipleResponses"}

\* returns_ref: the call borrows the value the pattern keeps
returns_ref(values) ==
    /\ phase = "build" /\ DefinesResponse
    /\ \E v \in values :
          ChainStep("Quantify",
                    push_responder(Inner, OtherResponder("Borrowable", v)), 0)
    /\ BuildFrame

\* returns_static: the call gets this 'static reference
returns_static(values) ==
    /\ phase = "build" /\ DefinesResponse
    /\ \E v \in values :
          ChainStep("Quantify",
                    push_responder(Inner, StaticRefClosureResponder(v, FALSE)),
                    0)
    /\ BuildFrame

\* answers_leaked_ref: the call gets a reference to what the closure makes
\* of the inputs, leaked
answers_leaked_ref(values) ==
    /\ phase = "build" /\ DefinesResponse
    /\ \E v \in values :
          ChainStep("Quantify",
                    push_responder(Inner, StaticRefClosureResponder(v, TRUE)),
                    0)
    /\ BuildFrame

\* panics: the call fails with the message
panics(messages) ==
    /\ phase = "build" /\ DefinesResponse
    /\ \E msg \in messages :
          ChainStep("Quantify",
                    push_responder(Inner, OtherResponder("Panic", msg)), 0)
    /\ BuildFrame

\* unmocked: the call goes to the real implementation
unmocked ==
    /\ phase = "build" /\ DefinesResponse
    /\ ChainStep("Quantify",
                 push_responder(Inner, OtherResponder("Unmock", 0)), 0)
    /\ BuildFrame

\* DefineMultipleResponses::returns: a cloneable value
DefineMultipleResponses_returns(values) ==
    /\ phase = "build" /\ chain.state = "DefineMultipleResponses"
    /\ \E v \in values :
          ChainStep("Quantify",
                    push_responder(Inner, ValueResponder(v, FALSE)), 0)
    /\ BuildFrame

\* QuantifyReturnValue::once
QuantifyReturnValue_once ==
    /\ phase = "build" /\ chain.state = "QuantifyReturnValue"
    /\ ChainStep("QuantifiedExact",
                 quantify(push_responder(Inner,
                                         ValueResponder(chain.value, TRUE)),
                          1, "Exact"),
                 0)
    /\ BuildFrame

\* QuantifyReturnValue::n_times
QuantifyReturnValue_n_times ==
    /\ phase = "build" /\ chain.state = "QuantifyReturnValue"
    /\ \E times \in 0..MaxTimes :
          ChainStep("QuantifiedExact",
                    quantify(push_responder(Inner,
                                            ValueResponder(chain.value, FALSE)),
                             times, "Exact"),
                    0)
    /\ BuildFrame

\* QuantifyReturnValue::at_least_times
QuantifyReturnValue_at_least_times ==
    /\ phase = "build" /\ chain.state = "QuantifyReturnValue"
    /\ \E times \in 0..MaxTimes :
          ChainStep("QuantifiedAtLeast",
                    quantify(push_responder(Inner,
                                            ValueResponder(chain.value, FALSE)),
                             times, "AtLeast"),
                    0)
    /\ BuildFrame

\* Quantify::once
Quantify_once ==
    /\ phase = "build" /\ chain.state = "Quantify"
    /\ ChainStep("QuantifiedExact", quantify(Inner, 1, "Exact"), 0)
    /\ BuildFrame

\* Quantify::n_times
Quantify_n_times(wrappers) ==
    /\ phase = "build" /\ chain.state = "Quantify"
    /\ chain.wrapper \in wrappers
    /\ \E times \in 0..MaxTimes :
          ChainStep("QuantifiedExact", quantify(Inner, times, "Exact"), 0)
    /\ BuildFrame

\* Quantify::at_least_times
Quantify_at_least_times(wrappers) ==
    /\ phase = "build" /\ chain.state = "Quantify"
    /\ chain.wrapper \in wrappers
    /\ \E times \in 0..MaxTimes :
          ChainStep("QuantifiedAtLeast", quantify(Inner, times, "AtLeast"), 0)
    /\ BuildFrame

\* a plausible slip: then() leaves the expectation as it was
then_expectation_kept(ce) == ce

\* a plausible slip: the floor of then() is added to the minimum
then_expectation_plus_one(ce) == add_to_minimum(ce, 1, "AtLeastPlusOne")

\* QuantifiedResponse::then, its effect on the count expectation
then_expectation(ce) == add_to_minimum(ce, 0, "AtLeastPlusOne")

\* a plausible slip: then() after any quantifier
QuantifiedResponse_then_any(wrappers) ==
    /\ phase = "build"
    /\ chain.state \in {"QuantifiedExact", "QuantifiedAtLeast"}
    /\ chain.wrapper \in wrappers
    /\ Len(Inner.responders) < MaxStages
    /\ ChainStep("DefineMultipleResponses",
                 [Inner EXCEPT !.count_expectation = then_expectation(@)], 0)
    /\ BuildFrame

\* QuantifiedResponse::then: only after an exact quantifier
QuantifiedResponse_then(wrappers) ==
    /\ phase = "build" /\ chain.state = "QuantifiedExact"
    /\ chain.wrapper \in wrappers
    /\ Len(Inner.responders) < MaxStages
    /\ ChainStep("DefineMultipleResponses",
                 [Inner EXCEPT !.count_expectation = then_expectation(@)], 0)
    /\ BuildFrame

(* ----------------------------- registration --------------------------- *)

\* the call pattern a finished builder becomes. An in-order pattern is given
\* the next global order positions, as many as its minimum call count; a
\* pattern matched in any order is given none.
new_call_pattern(b, start) ==
    [input_matcher     |-> b.input_matcher,
     responders        |-> b.responders,
     count_expectation |-> b.count_expectation,
     call_counter      |-> 0,
     quantified        |-> b.quantified,
     ordered_call_index_range |->
        IF b.pattern_match_mode = "InOrder"
        THEN [start |-> start, end |-> start + b.count_expectation.minimum]
        ELSE [start |-> 0, end |-> 0]]

\* the registry entry of a function takes the mode of its first clause; the
\* model registers no clause of the other mode for that function
can_put_terminal(f, b) ==
    impls[f].present => impls[f].pattern_match_mode = b.pattern_match_mode

\* a plausible slip: every in-order pattern moves the next free position
\* on by one, whatever its minimum
put_terminal_one_each(reg, f, b) ==
    LET pat == new_call_pattern(b, reg.next)
    IN [impls |-> [reg.impls EXCEPT ![f] =
                      [present            |-> TRUE,
                       pattern_match_mode |-> b.pattern_match_mode,
                       patterns           |-> Append(@.patterns, pat)]],
        next  |-> IF b.pattern_match_mode = "InOrder"
                  THEN reg.next + 1
                  ELSE reg.next]

\* TerminalSink::put_terminal: the pattern is appended to its function's
\* registry entry; the result is the registry and the next free position
put_terminal(reg, f, b) ==
    LET pat == new_call_pattern(b, reg.next)
    IN [impls |-> [reg.impls EXCEPT ![f] =
                      [present            |-> TRUE,
                       pattern_match_mode |-> b.pattern_match_mode,
                       patterns           |-> Append(@.patterns, pat)]],
        next  |-> IF b.pattern_match_mode = "InOrder"
                  THEN pat.ordered_call_index_range.end
                  ELSE reg.next]

RECURSIVE put_terminals(_, _, _)
put_terminals(reg, f, builders) ==
    IF builders = << >> THEN reg
    ELSE put_terminals(put_terminal(reg, f, Head(builders)), f, Tail(builders))

Registry == [impls |-> impls, next |-> current_call_index]

\* a clause is handed to the registry; the chain is over
Register(f, builders) ==
    LET reg == put_terminals(Registry, f, builders)
    IN /\ impls' = reg.impls
       /\ current_call_index' = reg.next
       /\ chain' = NoChain
       /\ each' = NoEach
       /\ UNCHANGED << phase, call_index, fallback_mode, ncalls, last, errors,
                       verify_in_drop, verifications, threads,
                    value_chain >>

\* a plausible slip: the held-back value is registered as a cloneable one
once_builder_cloneable(b, v) ==
    quantify(push_responder(b, ValueResponder(v, FALSE)), 1, "Exact")

\* QuantifyReturnValue::deconstruct, the builder self.once() leaves
once_builder(b, v) ==
    quantify(push_responder(b, ValueResponder(v, TRUE)), 1, "Exact")

\* ClauseSealed for QuantifyReturnValue: self.once().deconstruct(sink)
QuantifyReturnValue_deconstruct ==
    /\ phase = "build" /\ chain.state = "QuantifyReturnValue"
    /\ chain.wrapper = "Owned"
    /\ LET b == once_builder(chain.builder, chain.value)
       IN can_put_terminal(chain.f, b) /\ Register(chain.f, << b >>)

\* Drop for QuantifyReturnValue, the builder it leaves: the value still held
\* is pushed as a take-once responder, and nothing is quantified
drop_builder(b, v) == push_responder(b, ValueResponder(v, TRUE))

\* Drop for QuantifyReturnValue: the chain is dropped with its value unused
QuantifyReturnValue_drop ==
    /\ phase = "build" /\ chain.state = "QuantifyReturnValue"
    /\ ChainStep("Dropped", drop_builder(Inner, chain.value), 0)
    /\ BuildFrame

\* the fields of the dropped chain go: an owned builder is gone with it
BuilderWrapper_drop ==
    /\ phase = "build" /\ chain.state = "Dropped"
    /\ chain' = NoChain
    /\ UNCHANGED each
    /\ BuildFrame

\* a plausible slip: the implicit quantifier of an in-order clause is left out
implicit_quantify_none(b) == b

\* ClauseSealed for Quantify: an in-order clause left unquantified is
\* quantified as exactly one call
implicit_quantify(b) ==
    IF b.pattern_match_mode = "InOrder" THEN quantify(b, 1, "Exact") ELSE b

Quantify_deconstruct ==
    /\ phase = "build" /\ chain.state = "Quantify"
    /\ chain.wrapper = "Owned"
    /\ LET b == implicit_quantify(chain.builder)
       IN can_put_terminal(chain.f, b) /\ Register(chain.f, << b >>)

\* ClauseSealed for QuantifiedResponse
QuantifiedResponse_deconstruct ==
    /\ phase = "build"
    /\ chain.state \in {"QuantifiedExact", "QuantifiedAtLeast"}
    /\ chain.wrapper = "Owned"
    /\ can_put_terminal(chain.f, chain.builder)
    /\ Register(chain.f, << chain.builder >>)

\* a plausible slip: a stub without patterns is taken as it is
Each_deconstruct_unchecked ==
    /\ phase = "build" /\ each.active
    /\ each.patterns # << >> => can_put_terminal(each.f, each.patterns[1])
    /\ Register(each.f, each.patterns)

\* ClauseSealed for Each: a stub without call patterns is an error,
\* otherwise its patterns are registered in the order they were declared
Each_deconstruct ==
    /\ phase = "build" /\ each.active
    /\ IF each.patterns = << >>
       THEN /\ phase' = "failed"
            /\ errors' = {[kind |-> "StubContainedNoCallPatterns",
                           f |-> each.f, pat_index |-> -1]}
            /\ chain' = NoChain
            /\ each' = NoEach
            /\ UNCHANGED << impls, current_call_index, call_index,
                            fallback_mode, ncalls, last, verify_in_drop,
                            verifications, threads,
                    value_chain >>
       ELSE /\ can_put_terminal(each.f, each.patterns[1])
            /\ Register(each.f, each.patterns)

\* Unimock::new / new_partial: the clauses are in, the instance is in use
New ==
    /\ phase = "build" /\ chain.state = "None" /\ ~each.active
    /\ phase' = "run"
    /\ \E fb \in FallbackModes : fallback_mode' = fb
    /\ UNCHANGED << chain, each, impls, current_call_index, call_index,
                    ncalls, last, errors, verify_in_drop, verifications,
                    threads,
                    value_chain >>

(* ------------------------- responder selection ----------------------- *)

\* the position of the first element of seq that passes Test, 0 if none
FirstWhere(seq, Test(_)) ==
    LET S == {i \in 1..Len(seq) : Test(seq[i])}
    IN IF S = {} THEN 0 ELSE CHOOSE i \in S : \A j \in S : i <= j

RECURSIVE scan_responders(_, _, _, _)
scan_responders(responders, idx, i, found) ==
    IF i > Len(responders) THEN found
    ELSE IF responders[i].response_index > idx THEN found
    ELSE scan_responders(responders, idx, i + 1, i)

\* a plausible slip: the scan stops at the first responder it may use
select_first_responder(responders, idx) ==
    IF responders # << >> /\ responders[1].response_index <= idx
    THEN 1 ELSE 0

\* eval.rs select_responder_for_call, the scan: the position of the last
\* responder whose response_index is not above idx, 0 for None
select_responder_for_call(responders, idx) ==
    scan_responders(responders, idx, 1, 0)

\* call_pattern.rs find_responder_by_call_index: the positions the binary
\* search may give (slice::binary_search_by gives any one of the equal
\* elements), {0} for None, {-1} where insert_index - 1 underflows
find_responder_by_call_index(responders, idx) ==
    IF responders = << >> THEN {0}
    ELSE LET equal == {i \in 1..Len(responders) :
                          responders[i].response_index = idx}
             insert_index ==
                 Cardinality({i \in 1..Len(responders) :
                                 responders[i].response_index < idx})
         IN IF equal # {} THEN equal
            ELSE IF insert_index = 0 THEN {-1}
            ELSE {insert_index}

(* ------------------------------ evaluation ---------------------------- *)

\* a plausible slip: the fallback mode is not consulted
eval_type_erased_mock_impl_strict(dyn_impl, fb) ==
    IF ~dyn_impl.present
    THEN [tag |-> "Err", error |-> "NoMockImplementation"]
    ELSE [tag |-> "Continue", error |-> "None"]

\* eval_type_erased_mock_impl
eval_type_erased_mock_impl(dyn_impl, fb) ==
    IF ~dyn_impl.present
    THEN IF fb = "Error" THEN [tag |-> "Err", error |-> "NoMockImplementation"]
         ELSE [tag |-> "Unmock", error |-> "None"]
    ELSE [tag |-> "Continue", error |-> "None"]

\* whether the pattern's global order range holds the position
matches_global_call_index(pattern, current) ==
    /\ pattern.ordered_call_index_range.start <= current
    /\ current < pattern.ordered_call_index_range.end

\* a plausible slip: the first pattern is taken, whatever it accepts
first_pattern_any(patterns, input) ==
    IF patterns = << >> THEN 0 ELSE 1

\* a plausible slip: a pattern that has had the calls it expects exactly
\* is passed over for the next one that accepts
first_matching_unsatisfied(patterns, input) ==
    LET Accepts(pattern) ==
            /\ input \in pattern.input_matcher
            /\ ~(/\ pattern.count_expectation.exactness = "Exact"
                 /\ pattern.call_counter >= pattern.count_expectation.minimum)
    IN FirstWhere(patterns, Accepts)

\* match_pattern, InAnyOrder: the first pattern whose matcher accepts
first_matching_pattern(patterns, input) ==
    LET Accepts(pattern) == input \in pattern.input_matcher
    IN FirstWhere(patterns, Accepts)

\* a plausible slip: the order position is looked up among the matchers
\* that accept the input only
pattern_by_input_then_index(patterns, current, input) ==
    LET Covers(pattern) == /\ matches_global_call_index(pattern, current)
                           /\ input \in pattern.input_matcher
    IN FirstWhere(patterns, Covers)

\* match_pattern, InOrder: the pattern that covers the order position
pattern_by_call_index(patterns, current, input) ==
    LET Covers(pattern) == matches_global_call_index(pattern, current)
    IN FirstWhere(patterns, Covers)

\* a plausible slip: every call takes a position in the global order
next_call_index_always(mode, current) == current + 1

\* a plausible slip: every function counts its own in-order calls
next_call_index_stuck(mode, current) == current

\* match_pattern: what the call leaves in the global ordered call index
next_call_index(mode, current) ==
    IF mode = "InOrder" THEN current + 1 ELSE current

\* match_pattern: Some(pattern), None, or an error
match_pattern(mode, patterns, input, current) ==
    IF mode = "InOrder"
    THEN LET p == pattern_by_call_index(patterns, current, input)
         IN IF p = 0
            THEN [tag |-> "Err", pat |-> 0,
                  error |-> "CallOrderNotMatchedForMockFn"]
            ELSE IF input \notin patterns[p].input_matcher
            THEN [tag |-> "Err", pat |-> p,
                  error |-> "InputsNotMatchedInCallOrder"]
            ELSE [tag |-> "Some", pat |-> p, error |-> "None"]
    ELSE LET p == first_matching_pattern(patterns, input)
         IN IF p = 0 THEN [tag |-> "None", pat |-> 0, error |-> "None"]
            ELSE [tag |-> "Some", pat |-> p, error |-> "None"]

\* the error of a call that selects an owned-once value already moved out
ValueAlreadyConsumed == "ValueAlreadyConsumed"

\* a plausible slip: the value is read and left in place
cell_take_keep(responder) ==
    [some |-> ~responder.taken, responder |-> responder]

\* DynResponder::new_cell, option.take() under the lock: the value if it is
\* still there, and the cell empty from then on
cell_take(responder) ==
    [some |-> ~responder.taken, responder |-> [responder EXCEPT !.taken = TRUE]]

\* what an answering closure makes of the input
closure_output(responder, input) == responder.value + input

\* a plausible slip: the pass-through responder answers for itself
respond_sized_unmock_answered(responder, input) ==
    CASE responder.kind = "Value" /\ ~responder.once ->
            [tag |-> "Evaluated", value |-> responder.value,
             error |-> "None", responder |-> responder]
      [] responder.kind = "Value" /\ responder.once ->
            LET t == cell_take(responder)
            IN IF t.some
               THEN [tag |-> "Evaluated", value |-> responder.value,
                     error |-> "None", responder |-> t.responder]
               ELSE [tag |-> "Error", value |-> 0,
                     error |-> ValueAlreadyConsumed, responder |-> t.responder]
      [] responder.kind = "Closure" ->
            [tag |-> "Evaluated", value |-> closure_output(responder, input),
             error |-> "None", responder |-> responder]
      [] responder.kind \in {"StaticRefClosure", "Borrowable"} ->
            [tag |-> "Error", value |-> 0,
             error |-> "TypeMismatchExpectedOwnedInsteadOfBorrowed",
             responder |-> responder]
      [] responder.kind = "Panic" ->
            [tag |-> "Error", value |-> responder.value,
             error |-> "ExplicitPanic", responder |-> responder]
      [] responder.kind = "Unmock" ->
            [tag |-> "Evaluated", value |-> responder.value,
             error |-> "None", responder |-> responder]

\* a plausible slip: every stored value is taken by the call that gets it
respond_sized_taking(responder, input) ==
    CASE responder.kind = "Value" ->
            LET t == cell_take(responder)
            IN IF t.some
               THEN [tag |-> "Evaluated", value |-> responder.value,
                     error |-> "None", responder |-> t.responder]
               ELSE [tag |-> "Error", value |-> 0,
                     error |-> ValueAlreadyConsumed, responder |-> t.responder]
      [] responder.kind = "Closure" ->
            [tag |-> "Evaluated", value |-> closure_output(responder, input),
             error |-> "None", responder |-> responder]
      [] responder.kind \in {"StaticRefClosure", "Borrowable"} ->
            [tag |-> "Error", value |-> 0,
             error |-> "TypeMismatchExpectedOwnedInsteadOfBorrowed",
             responder |-> responder]
      [] responder.kind = "Panic" ->
            [tag |-> "Error", value |-> responder.value,
             error |-> "ExplicitPanic", responder |-> responder]
      [] responder.kind = "Unmock" ->
            [tag |-> "Skipped", value |-> 0, error |-> "None",
             responder |-> responder]

\* eval_sized, the match over the selected responder: the evaluation and
\* the responder as the call leaves it
respond_sized(responder, input) ==
    CASE responder.kind = "Value" /\ ~responder.once ->
            [tag |-> "Evaluated", value |-> responder.value,
             error |-> "None", responder |-> responder]
      [] responder.kind = "Value" /\ responder.once ->
            LET t == cell_take(responder)
            IN IF t.some
               THEN [tag |-> "Evaluated", value |-> responder.value,
                     error |-> "None", responder |-> t.responder]
               ELSE [tag |-> "Error", value |-> 0,
                     error |-> ValueAlreadyConsumed, responder |-> t.responder]
      [] responder.kind = "Closure" ->
            [tag |-> "Evaluated", value |-> closure_output(responder, input),
             error |-> "None", responder |-> responder]
      [] responder.kind \in {"StaticRefClosure", "Borrowable"} ->
            [tag |-> "Error", value |-> 0,
             error |-> "TypeMismatchExpectedOwnedInsteadOfBorrowed",
             responder |-> responder]
      [] responder.kind = "Panic" ->
            [tag |-> "Error", value |-> responder.value,
             error |-> "ExplicitPanic", responder |-> responder]
      [] responder.kind = "Unmock" ->
            [tag |-> "Skipped", value |-> 0, error |-> "None",
             responder |-> responder]

\* the outcome of a call that ends before a responder is selected
EarlyOutcome(f, input, tag, error, p, order) ==
    [f |-> f, input |-> input, tag |-> tag, error |-> error, value |-> 0,
     pat_index |-> p - 1, order |-> order]

\* a plausible slip: no pattern matched is an error whatever the fallback
no_match_outcome_strict(f, input, fb, order) ==
    EarlyOutcome(f, input, "Error", "NoMatchingCallPatterns", 0, order)

\* eval_responder, no pattern matched: an error, or the call is unmocked
no_match_outcome(f, input, fb, order) ==
    IF fb = "Error"
    THEN EarlyOutcome(f, input, "Error", "NoMatchingCallPatterns", 0, order)
    ELSE EarlyOutcome(f, input, "Skipped", "None", 0, order)

\* a plausible slip: the call is counted by every pattern of the function
increase_call_counter_all(reg, f, p) ==
    [reg EXCEPT ![f].patterns =
        [i \in 1..Len(@) |-> [@[i] EXCEPT !.call_counter = @ + 1]]]

\* a plausible slip: only the calls that can still get an output are
\* counted, not the ones that find the owned-once value gone
increase_call_counter_of_outputs(reg, f, p) ==
    LET pat == reg[f].patterns[p]
        pos == select_responder_for_call(pat.responders, pat.call_counter)
    IN IF pos # 0 /\ pat.responders[pos].responder.taken
       THEN reg
       ELSE [reg EXCEPT ![f].patterns[p].call_counter = @ + 1]

\* increase_call_counter: the selected pattern counts the call
increase_call_counter(reg, f, p) ==
    [reg EXCEPT ![f].patterns[p].call_counter = @ + 1]

\* a plausible slip: under the Unmock fallback a call that match_pattern
\* rejects is unmocked like a call no pattern matched
eval_responder_rescuing(reg, f, input, current, fb) ==
    LET dyn_impl == reg[f]
        e == eval_type_erased_mock_impl(dyn_impl, fb)
        Done(registry, index, outcome) ==
            [tag |-> "Done", impls |-> registry, call_index |-> index,
             outcome |-> outcome, pat |-> 0, pos |-> 0, order |-> -1]
    IN IF e.tag = "Err"
       THEN Done(reg, current,
                 EarlyOutcome(f, input, "Error", e.error, 0, -1))
       ELSE IF e.tag = "Unmock"
       THEN Done(reg, current,
                 EarlyOutcome(f, input, "Skipped", "None", 0, -1))
       ELSE
       LET mode == dyn_impl.pattern_match_mode
           m == match_pattern(mode, dyn_impl.patterns, input, current)
           next == next_call_index(mode, current)
           order == IF mode = "InOrder" THEN current ELSE -1
       IN IF m.tag = "Err" /\ fb = "Error"
          THEN Done(reg, next,
                    EarlyOutcome(f, input, "Error", m.error, m.pat, order))
          ELSE IF m.tag \in {"None", "Err"}
          THEN Done(reg, next, no_match_outcome(f, input, fb, order))
          ELSE
          LET pat == dyn_impl.patterns[m.pat]
              local == pat.call_counter
              counted == increase_call_counter(reg, f, m.pat)
              pos == select_responder_for_call(pat.responders, local)
          IN IF pos = 0
             THEN Done(counted, next,
                       EarlyOutcome(f, input, "Error",
                                    "NoOutputAvailableForCallPattern", m.pat,
                                    order))
             ELSE [tag |-> "Continue", impls |-> counted,
                   call_index |-> next, outcome |-> NoCall,
                   pat |-> m.pat, pos |-> pos, order |-> order]

\* eval_responder: the call up to the responder it selects. Done: the call
\* ended before a responder was selected, with this outcome. Continue: the
\* responder at pos of pattern pat was selected.
eval_responder(reg, f, input, current, fb) ==
    LET dyn_impl == reg[f]
        e == eval_type_erased_mock_impl(dyn_impl, fb)
        Done(registry, index, outcome) ==
            [tag |-> "Done", impls |-> registry, call_index |-> index,
             outcome |-> outcome, pat |-> 0, pos |-> 0, order |-> -1]
    IN IF e.tag = "Err"
       THEN Done(reg, current,
                 EarlyOutcome(f, input, "Error", e.error, 0, -1))
       ELSE IF e.tag = "Unmock"
       THEN Done(reg, current,
                 EarlyOutcome(f, input, "Skipped", "None", 0, -1))
       ELSE
       LET mode == dyn_impl.pattern_match_mode
           m == match_pattern(mode, dyn_impl.patterns, input, current)
           next == next_call_index(mode, current)
           order == IF mode = "InOrder" THEN current ELSE -1
       IN IF m.tag = "Err"
          THEN Done(reg, next,
                    EarlyOutcome(f, input, "Error", m.error, m.pat, order))
          ELSE IF m.tag = "None"
          THEN Done(reg, next, no_match_outcome(f, input, fb, order))
          ELSE
          LET pat == dyn_impl.patterns[m.pat]
              \* increase_call_counter: fetch_add gives the old count
              local == pat.call_counter
              counted == increase_call_counter(reg, f, m.pat)
              pos == select_responder_for_call(pat.responders, local)
          IN IF pos = 0
             THEN Done(counted, next,
                       EarlyOutcome(f, input, "Error",
                                    "NoOutputAvailableForCallPattern", m.pat,
                                    order))
             ELSE [tag |-> "Continue", impls |-> counted,
                   call_index |-> next, outcome |-> NoCall,
                   pat |-> m.pat, pos |-> pos, order |-> order]

\* the call as the selected responder's response r leaves it
responded(c, f, input, r) ==
    [impls |-> [c.impls EXCEPT
                   ![f].patterns[c.pat].responders[c.pos].responder =
                       r.responder],
     call_index |-> c.call_index,
     outcome |-> [f |-> f, input |-> input, tag |-> r.tag,
                  error |-> r.error, value |-> r.value,
                  pat_index |-> c.pat - 1, order |-> c.order]]

\* the call as it ended before a responder was selected
not_responded(c) ==
    [impls |-> c.impls, call_index |-> c.call_index, outcome |-> c.outcome]

\* eval_sized with eval_responder: the whole of one call, as the registry,
\* the global ordered call index and the outcome it leaves
eval_sized(reg, f, input, current, fb) ==
    LET c == eval_responder(reg, f, input, current, fb)
    IN IF c.tag = "Done"
       THEN not_responded(c)
       ELSE responded(c, f, input,
                respond_sized(reg[f].patterns[c.pat].responders[c.pos]
                                  .responder, input))

\* what a closure that gives a 'static reference makes of the input
static_ref_output(responder, input) ==
    IF responder.by_input THEN responder.value + input ELSE responder.value

\* a plausible slip: a stored value is lent out as if it were 'static
respond_unsized_static_ref_lending(responder, input) ==
    CASE responder.kind \in {"Value", "Borrowable"} ->
            [tag |-> "Evaluated", value |-> responder.value,
             error |-> "None", responder |-> responder]
      [] responder.kind = "Closure" ->
            [tag |-> "Error", value |-> 0,
             error |-> "CannotBorrowValueProducedByClosure",
             responder |-> responder]
      [] responder.kind = "StaticRefClosure" ->
            [tag |-> "Evaluated",
             value |-> static_ref_output(responder, input),
             error |-> "None", responder |-> responder]
      [] responder.kind = "Panic" ->
            [tag |-> "Error", value |-> responder.value,
             error |-> "ExplicitPanic", responder |-> responder]
      [] responder.kind = "Unmock" ->
            [tag |-> "Skipped", value |-> 0, error |-> "None",
             responder |-> responder]

\* eval_unsized_static_ref, the match over the selected responder
respond_unsized_static_ref(responder, input) ==
    CASE responder.kind \in {"Value", "Borrowable"} ->
            [tag |-> "Error", value |-> 0,
             error |-> "CannotBorrowValueStatically",
             responder |-> responder]
      [] responder.kind = "Closure" ->
            [tag |-> "Error", value |-> 0,
             error |-> "CannotBorrowValueProducedByClosure",
             responder |-> responder]
      [] responder.kind = "StaticRefClosure" ->
            [tag |-> "Evaluated",
             value |-> static_ref_output(responder, input),
             error |-> "None", responder |-> responder]
      [] responder.kind = "Panic" ->
            [tag |-> "Error", value |-> responder.value,
             error |-> "ExplicitPanic", responder |-> responder]
      [] responder.kind = "Unmock" ->
            [tag |-> "Skipped", value |-> 0, error |-> "None",
             responder |-> responder]

\* eval_unsized_static_ref with eval_responder: one call of a function
\* whose output is a 'static reference
eval_unsized_static_ref(reg, f, input, current, fb) ==
    LET c == eval_responder(reg, f, input, current, fb)
    IN IF c.tag = "Done"
       THEN not_responded(c)
       ELSE responded(c, f, input,
                respond_unsized_static_ref(
                    reg[f].patterns[c.pat].responders[c.pos].responder, input))

\* eval_unsized_self_borrowed, the match over the selected responder
respond_unsized_self_borrowed(responder, input) ==
    CASE responder.kind \in {"Value", "Borrowable"} ->
            [tag |-> "Evaluated", value |-> responder.value,
             error |-> "None", responder |-> responder]
      [] responder.kind = "Closure" ->
            [tag |-> "Error", value |-> 0,
             error |-> "CannotBorrowValueProducedByClosure",
             responder |-> responder]
      [] responder.kind = "StaticRefClosure" ->
            [tag |-> "Evaluated",
             value |-> static_ref_output(responder, input),
             error |-> "None", responder |-> responder]
      [] responder.kind = "Panic" ->
            [tag |-> "Error", value |-> responder.value,
             error |-> "ExplicitPanic", responder |-> responder]
      [] responder.kind = "Unmock" ->
            [tag |-> "Skipped", value |-> 0, error |-> "None",
             responder |-> responder]

\* eval_unsized_self_borrowed with eval_responder: one call of a function
\* whose output borrows from the instance
eval_unsized_self_borrowed(reg, f, input, current, fb) ==
    LET c == eval_responder(reg, f, input, current, fb)
    IN IF c.tag = "Done"
       THEN not_responded(c)
       ELSE responded(c, f, input,
                respond_unsized_self_borrowed(
                    reg[f].patterns[c.pat].responders[c.pos].responder, input))

\* one call of a mocked method
Call(fns, max) ==
    /\ phase = "run" /\ ncalls < max
    /\ \E f \in fns, input \in Inputs :
          LET r == eval_sized(impls, f, input, call_index, fallback_mode)
          IN /\ impls' = r.impls
             /\ call_index' = r.call_index
             /\ last' = r.outcome
    /\ ncalls' = ncalls + 1
    /\ UNCHANGED << phase, chain, each, current_call_index, fallback_mode,
                    errors, verify_in_drop, verifications, threads,
                    value_chain >>

\* one call of a mocked method whose output is a 'static reference
Call_static_ref(fns, max) ==
    /\ phase = "run" /\ ncalls < max
    /\ \E f \in fns, input \in Inputs :
          LET r == eval_unsized_static_ref(impls, f, input, call_index,
                                           fallback_mode)
          IN /\ impls' = r.impls
             /\ call_index' = r.call_index
             /\ last' = r.outcome
    /\ ncalls' = ncalls + 1
    /\ UNCHANGED << phase, chain, each, current_call_index, fallback_mode,
                    errors, verify_in_drop, verifications, threads,
                    value_chain >>

(* ------------------------- calls from threads ------------------------- *)

\* A call from a thread goes through eval_sized in three steps, each of
\* them around one atomic operation on shared state: the fetch_add on the
\* global call index in match_pattern, the fetch_add on the pattern's call
\* counter in select_responder_for_call, and the take from the cell under
\* its lock. The registry itself is only read.

\* the calls the threads have begun
ThreadCalls ==
    LET begun(t) == Len(threads[t].results)
                    + (IF threads[t].pc = "idle" THEN 0 ELSE 1)
    IN SumSeq([t \in Threads |-> begun(t)])

\* the thread has made a call; the threads are numbered in the order of
\* their first calls
ThreadBegan(t) == threads[t].pc # "idle" \/ threads[t].results # << >>

\* the thread leaves eval_sized with this outcome
thread_return(t, outcome, local, pos) ==
    [threads EXCEPT ![t] =
        [pc |-> "idle", f |-> outcome.f, input |-> outcome.input,
         pat |-> 0, pos |-> 0, order |-> -1, local |-> -1,
         orders |-> threads[t].orders,
         results |-> Append(threads[t].results,
                            [f |-> outcome.f, input |-> outcome.input,
                             tag |-> outcome.tag, error |-> outcome.error,
                             value |-> outcome.value,
                             pat_index |-> outcome.pat_index,
                             order |-> outcome.order,
                             local |-> local, pos |-> pos])]]

\* the thread keeps the position the fetch_add gave it
thread_position(t, order) ==
    [threads EXCEPT ![t].orders =
        IF order >= 0 THEN Append(@, order) ELSE @]

\* eval_type_erased_mock_impl and match_pattern: the thread takes its
\* position in the global order and finds its pattern
thread_match(t, fns, inputs) ==
    /\ phase = "run" /\ threads[t].pc = "idle"
    /\ ThreadCalls < MaxThreadCalls
    /\ \A u \in Threads : u < t => ThreadBegan(u)
    /\ \E f \in fns, input \in inputs :
          LET dyn_impl == impls[f]
              e == eval_type_erased_mock_impl(dyn_impl, fallback_mode)
              mode == dyn_impl.pattern_match_mode
              m == match_pattern(mode, dyn_impl.patterns, input, call_index)
              order == IF mode = "InOrder" THEN call_index ELSE -1
          IN IF e.tag = "Err"
             THEN /\ threads' = thread_return(t,
                        EarlyOutcome(f, input, "Error", e.error, 0, -1), -1, 0)
                  /\ UNCHANGED call_index
             ELSE IF e.tag = "Unmock"
             THEN /\ threads' = thread_return(t,
                        EarlyOutcome(f, input, "Skipped", "None", 0, -1), -1, 0)
                  /\ UNCHANGED call_index
             ELSE /\ call_index' = next_call_index(mode, call_index)
                  /\ LET positioned == thread_position(t, order)
                         returned(outcome) ==
                            [thread_return(t, outcome, -1, 0) EXCEPT
                                ![t].orders = positioned[t].orders]
                     IN threads' =
                        IF m.tag = "Err"
                        THEN returned(EarlyOutcome(f, input, "Error", m.error,
                                                   m.pat, order))
                        ELSE IF m.tag = "None"
                        THEN returned(no_match_outcome(f, input,
                                                       fallback_mode, order))
                        ELSE [positioned EXCEPT ![t] =
                                [@ EXCEPT !.pc = "matched", !.f = f,
                                          !.input = input, !.pat = m.pat,
                                          !.order = order]]
    /\ UNCHANGED << phase, chain, each, impls, current_call_index,
                    fallback_mode, ncalls, last, errors, verify_in_drop,
                    verifications, value_chain >>

\* a plausible slip: a load and a store in place of the fetch_add, so that
\* the count a thread works from may be one another thread has already
\* taken
thread_count_load_store(t) ==
    /\ phase = "run" /\ threads[t].pc = "matched"
    /\ LET th == threads[t]
           pat == impls[th.f].patterns[th.pat]
       IN \E local \in 0..pat.call_counter :
             LET pos == select_responder_for_call(pat.responders, local)
             IN /\ impls' = [impls EXCEPT
                               ![th.f].patterns[th.pat].call_counter = local + 1]
                /\ threads' =
                      IF pos = 0
                      THEN thread_return(t,
                              EarlyOutcome(th.f, th.input, "Error",
                                           "NoOutputAvailableForCallPattern",
                                           th.pat, th.order), local, 0)
                      ELSE [threads EXCEPT ![t] =
                              [@ EXCEPT !.pc = "counted", !.local = local,
                                        !.pos = pos]]
    /\ UNCHANGED << phase, chain, each, current_call_index, call_index,
                    fallback_mode, ncalls, last, errors, verify_in_drop,
                    verifications, value_chain >>

\* select_responder_for_call: the thread takes its local call index from
\* the pattern's counter and finds its responder
thread_count(t) ==
    /\ phase = "run" /\ threads[t].pc = "matched"
    /\ LET th == threads[t]
           pat == impls[th.f].patterns[th.pat]
           local == pat.call_counter
           pos == select_responder_for_call(pat.responders, local)
       IN /\ impls' = increase_call_counter(impls, th.f, th.pat)
          /\ threads' =
                IF pos = 0
                THEN thread_return(t,
                        EarlyOutcome(th.f, th.input, "Error",
                                     "NoOutputAvailableForCallPattern",
                                     th.pat, th.order), local, 0)
                ELSE [threads EXCEPT ![t] =
                        [@ EXCEPT !.pc = "counted", !.local = local,
                                  !.pos = pos]]
    /\ UNCHANGED << phase, chain, each, current_call_index, call_index,
                    fallback_mode, ncalls, last, errors, verify_in_drop,
                    verifications, value_chain >>

\* eval_sized, the match over the responder: the thread gets its output
thread_respond(t) ==
    /\ phase = "run" /\ threads[t].pc = "counted"
    /\ LET th == threads[t]
           pat == impls[th.f].patterns[th.pat]
           r == respond_sized(pat.responders[th.pos].responder, th.input)
       IN /\ impls' = [impls EXCEPT
                          ![th.f].patterns[th.pat].responders[th.pos]
                              .responder = r.responder]
          /\ threads' = thread_return(t,
                [f |-> th.f, input |-> th.input, tag |-> r.tag,
                 error |-> r.error, value |-> r.value,
                 pat_index |-> th.pat - 1, order |-> th.order],
                th.local, th.pos)
    /\ UNCHANGED << phase, chain, each, current_call_index, call_index,
                    fallback_mode, ncalls, last, errors, verify_in_drop,
                    verifications, value_chain >>

(* ---------------------------- borrowed outputs ------------------------ *)

\* the functions of the instance of SpecValueChain by their outputs: a
\* reference borrowed from the instance, or a Result of such a reference
BorrowedFns == {"F"}
MixedFns == {"G"}

\* the responses of SpecValueChain; for the function that gives a Result,
\* the odd ones are Ok and the even ones are Err
Responses == {1, 2}
IsOk(response) == response % 2 = 1

\* ValueChain::add: the value is put at the end of the chain
ValueChain_add(vc, value) == Append(vc, value)

\* a plausible slip: the chain keeps the latest value only
Borrowed_from_response_replacing(vc, response) ==
    [chain |-> << response >>, added |-> TRUE]

\* Output for Borrowed<T>, from_response: the owned response goes into the
\* chain and the output borrows it from there
Borrowed_from_response(vc, response) ==
    [chain |-> ValueChain_add(vc, response), added |-> TRUE]

\* Output for Mixed<Result<&T, E>>, from_response: an Ok value goes into
\* the chain, an Err is handed out as it is
Mixed_Result_from_response(vc, response) ==
    IF IsOk(response)
    THEN [chain |-> ValueChain_add(vc, response), added |-> TRUE]
    ELSE [chain |-> vc, added |-> FALSE]

\* Output::from_response of the function's output type
from_response(f, vc, response) ==
    IF f \in BorrowedFns
    THEN Borrowed_from_response(vc, response)
    ELSE Mixed_Result_from_response(vc, response)

\* the last step of a call whose output borrows: a cell responder gives an
\* owned response, which from_response turns into the output; any other
\* responder is borrowed from where it is (try_from_borrowed_response)
thread_respond_borrowing(t) ==
    /\ phase = "run" /\ threads[t].pc = "counted"
    /\ LET th == threads[t]
           pat == impls[th.f].patterns[th.pat]
           responder == pat.responders[th.pos].responder
           owned == responder.kind = "Value"
           r == IF owned
                THEN respond_sized(responder, th.input)
                ELSE respond_unsized_self_borrowed(responder, th.input)
       IN /\ impls' = [impls EXCEPT
                          ![th.f].patterns[th.pat].responders[th.pos]
                              .responder = r.responder]
          /\ value_chain' =
                IF owned /\ r.tag = "Evaluated"
                THEN from_response(th.f, value_chain, r.value).chain
                ELSE value_chain
          /\ threads' = thread_return(t,
                [f |-> th.f, input |-> th.input, tag |-> r.tag,
                 error |-> r.error, value |-> r.value,
                 pat_index |-> th.pat - 1, order |-> th.order],
                th.local, th.pos)
    /\ UNCHANGED << phase, chain, each, current_call_index, call_index,
                    fallback_mode, ncalls, last, errors, verify_in_drop,
                    verifications >>

(* ----------------------------- verification --------------------------- *)

\* the violations of one pattern: its count against its expectation, and
\* the never-called diagnostic beside it when it was not called at all
pattern_violations(f, p, pattern) ==
    IF is_satisfied(pattern.count_expectation, pattern.call_counter) THEN {}
    ELSE {[kind |-> "FailedVerification", f |-> f, pat_index |-> p - 1]}
         \cup (IF pattern.call_counter = 0
               THEN {[kind |-> "MockNeverCalled", f |-> f, pat_index |-> p - 1]}
               ELSE {})

\* a plausible slip: verification stops at the first pattern it finds
\* unsatisfied
verify_first(reg) ==
    LET failing == {fp \in Fns \X (1..MaxPatterns + 1) :
                       /\ fp[2] <= Len(reg[fp[1]].patterns)
                       /\ pattern_violations(fp[1], fp[2],
                                             reg[fp[1]].patterns[fp[2]]) # {}}
    IN IF failing = {} THEN {}
       ELSE LET fp == CHOOSE x \in failing : TRUE
            IN pattern_violations(fp[1], fp[2], reg[fp[1]].patterns[fp[2]])

\* verify: the violations of every pattern of every function, together
verify(reg) ==
    UNION {UNION {pattern_violations(f, p, reg[f].patterns[p]) :
                     p \in 1..Len(reg[f].patterns)} : f \in Fns}


\* a plausible slip: verification takes the counts out of the counters
verified_registry_reset(reg) ==
    [f \in Fns |->
        [reg[f] EXCEPT !.patterns =
            [p \in 1..Len(reg[f].patterns) |->
                [reg[f].patterns[p] EXCEPT !.call_counter = 0]]]]

\* the registry as verification leaves it: the counters are only read
verified_registry(reg) == reg

\* one run of verification: what it reports, and the record that it ran
\* after this many calls
Verification ==
    /\ errors' = verify(impls)
    /\ impls' = verified_registry(impls)
    /\ verifications' = Append(verifications, ncalls)
    /\ UNCHANGED << chain, each, current_call_index, call_index,
                    fallback_mode, ncalls, last, threads,
                    value_chain >>

\* Unimock::verify: the instance is dropped with verification switched on
Verify ==
    /\ phase = "run"
    /\ phase' = "dropped"
    /\ verify_in_drop' = TRUE
    /\ Verification

\* verification of an instance that stays in use
VerifyInUse ==
    /\ phase = "run"
    /\ Len(verifications) < MaxVerifications
    /\ UNCHANGED << phase, verify_in_drop >>
    /\ Verification

\* Unimock::no_verify_in_drop
no_verify_in_drop ==
    /\ phase = "run" /\ verify_in_drop
    /\ verify_in_drop' = FALSE
    /\ UNCHANGED << phase, chain, each, impls, current_call_index, call_index,
                    fallback_mode, ncalls, last, errors, verifications,
                    threads,
                    value_chain >>

\* a plausible slip: teardown verifies whatever the instance was told
teardown_verifies_always(flag) == TRUE

\* Drop for Unimock: whether teardown runs verification
teardown_verifies(flag) == flag

\* Drop for Unimock: teardown of an instance in use
Drop ==
    /\ phase = "run"
    /\ IF teardown_verifies(verify_in_drop)
       THEN /\ phase' = "dropped"
            /\ UNCHANGED verify_in_drop
            /\ Verification
       ELSE /\ phase' = "discarded"
            /\ UNCHANGED << chain, each, impls, current_call_index,
                            call_index, fallback_mode, ncalls, last, errors,
                            verify_in_drop, verifications, threads,
                    value_chain >>

(* --------------------------- specifications --------------------------- *)

\* An instance built from a tuple of clauses over several functions, each
\* clause one response, quantified once() or left as it is.
Next ==
    \/ with_owned_builder(Fns, FALSE)
    \/ DefineResponse_returns(FreshValues)
    \/ DefineMultipleResponses_returns(FreshValues)
    \/ QuantifyReturnValue_once
    \/ Quantify_once
    \/ QuantifyReturnValue_deconstruct
    \/ Quantify_deconstruct
    \/ QuantifiedResponse_deconstruct
    \/ New
    \/ Call(Fns, MaxCalls)
    \/ Verify

Spec == Init /\ [][Next]_vars

\* An instance built from one clause: a series of responses with every
\* quantifier, or a stub of several call patterns.
NextSeries ==
    \/ with_owned_builder(SeriesFns, TRUE)
    \/ Each_new(SeriesFns, TRUE)
    \/ Each_call
    \/ DefineResponse_returns(FreshValues)
    \/ DefineMultipleResponses_returns(FreshValues)
    \/ QuantifyReturnValue_once
    \/ QuantifyReturnValue_n_times
    \/ QuantifyReturnValue_at_least_times
    \/ Quantify_once
    \/ Quantify_n_times({"Owned"})
    \/ Quantify_at_least_times({"Owned"})
    \/ QuantifiedResponse_then({"Owned"})
    \/ QuantifyReturnValue_deconstruct
    \/ Quantify_deconstruct
    \/ QuantifiedResponse_deconstruct
    \/ Each_deconstruct
    \/ New
    \/ Call(SeriesFns, SeriesCalls)
    \/ Verify

SpecSeries == Init /\ [][NextSeries]_vars

\* the functions of the instance of SpecResponders by their outputs: owned,
\* or a 'static reference
SizedFns == {"F"}
StaticRefFns == {"G"}

\* An instance built from one clause of one pattern, answered by a
\* responder of any kind, and called.
NextResponders ==
    \/ with_owned_builder(Fns, TRUE)
    \/ DefineResponse_returns(FreshValues)
    \/ DefineResponse_answers(FreshValues)
    \/ DefineMultipleResponses_returns(FreshValues)
    \/ DefineMultipleResponses_answers(FreshValues)
    \/ returns_ref(FreshValues)
    \/ returns_static(FreshValues)
    \/ answers_leaked_ref(FreshValues)
    \/ panics(FreshValues)
    \/ unmocked
    \/ QuantifyReturnValue_deconstruct
    \/ Quantify_deconstruct
    \/ New
    \/ Call(SizedFns, MaxCalls)
    \/ Call_static_ref(StaticRefFns, MaxCalls)

SpecResponders == Init /\ [][NextResponders]_vars

\* An instance built from one clause that returns an owned or a borrowable
\* value, called from several threads through functions whose outputs
\* borrow from the instance, and verified while in use and in the end.
NextValueChain ==
    \/ with_owned_builder(Fns, TRUE)
    \/ DefineResponse_returns(Responses)
    \/ DefineMultipleResponses_returns(Responses)
    \/ returns_ref(Responses)
    \/ QuantifyReturnValue_deconstruct
    \/ Quantify_deconstruct
    \/ New
    \/ \E t \in Threads : thread_match(t, Fns, {1})
    \/ \E t \in Threads : thread_count(t)
    \/ \E t \in Threads : thread_respond_borrowing(t)
    \/ VerifyInUse
    \/ Verify

SpecValueChain == Init /\ [][NextValueChain]_vars

\* An instance built from stubs, their patterns returning values or
\* panicking, and called.
NextStub ==
    \/ Each_new(Fns, FALSE)
    \/ Each_call
    \/ DefineMultipleResponses_returns(FreshValues)
    \/ panics(FreshValues)
    \/ Each_deconstruct
    \/ New
    \/ Call(Fns, MaxCalls)

SpecStub == Init /\ [][NextStub]_vars

\* An instance built from a tuple of clauses, each one owned value left
\* unquantified, and called from several threads at once.
NextThreads ==
    \/ with_owned_builder(Fns, FALSE)
    \/ DefineResponse_returns(FreshValues)
    \/ QuantifyReturnValue_deconstruct
    \/ New
    \/ \E t \in Threads : thread_match(t, Fns, {1})
    \/ \E t \in Threads : thread_count(t)
    \/ \E t \in Threads : thread_respond(t)

SpecThreads == Init /\ [][NextThreads]_vars

\* An instance built from one clause of one response, used, verified while
\* in use or not, and torn down with or without verification.
\* BuilderWrapper::push_responder, called on the builder as it is
BuilderWrapper_push_responder(values) ==
    /\ phase = "build" /\ chain.wrapper = "Owned"
    /\ Len(chain.builder.responders) < MaxStages
    /\ \E v \in values :
          chain' = [chain EXCEPT
                       !.builder = push_responder(@, ValueResponder(v, FALSE))]
    /\ UNCHANGED each
    /\ BuildFrame

\* BuilderWrapper::quantify, called on the builder as it is: the function
\* looks at no responder
BuilderWrapper_quantify ==
    /\ phase = "build" /\ chain.wrapper = "Owned"
    /\ Len(chain.builder.quantified) < MaxStages
    /\ \E times \in 0..MaxTimes, exactness \in {"Exact", "AtLeast"} :
          chain' = [chain EXCEPT !.builder = quantify(@, times, exactness)]
    /\ UNCHANGED each
    /\ BuildFrame

\* The operations of BuilderWrapper as code inside the crate can call them:
\* in any order, not only in the order the typestates of the fluent API
\* impose.
NextQuantify ==
    \/ with_owned_builder(Fns, TRUE)
    \/ BuilderWrapper_push_responder(FreshValues)
    \/ BuilderWrapper_quantify

SpecQuantify == Init /\ [][NextQuantify]_vars

\* Threads calling into an instance built from one clause in series: the
\* calls of the threads share the stages of one pattern.
NextStaged ==
    \/ with_owned_builder(SeriesFns, TRUE)
    \/ DefineResponse_returns(FreshValues)
    \/ DefineMultipleResponses_returns(FreshValues)
    \/ QuantifyReturnValue_n_times
    \/ Quantify_n_times({"Owned"})
    \/ QuantifiedResponse_then({"Owned"})
    \/ Quantify_deconstruct
    \/ QuantifiedResponse_deconstruct
    \/ New
    \/ \E t \in Threads : thread_match(t, SeriesFns, {1})
    \/ \E t \in Threads : thread_count(t)
    \/ \E t \in Threads : thread_respond(t)

SpecStaged == Init /\ [][NextStaged]_vars

\* An instance of several clauses, each quantified with a count of its own,
\* so that the in-order patterns take ranges of several lengths; the calls
\* are those of one of its functions.
NextOrder ==
    \/ with_owned_builder(Fns, FALSE)
    \/ DefineResponse_returns(FreshValues)
    \/ QuantifyReturnValue_n_times
    \/ QuantifyReturnValue_deconstruct
    \/ QuantifiedResponse_deconstruct
    \/ New
    \/ Call(SeriesFns, OrderCalls)

SpecOrder == Init /\ [][NextOrder]_vars

NextTeardown ==
    \/ with_owned_builder(Fns, TRUE)
    \/ DefineResponse_returns(FreshValues)
    \/ DefineResponse_answers(FreshValues)
    \/ DefineMultipleResponses_returns(FreshValues)
    \/ QuantifyReturnValue_once
    \/ Quantify_once
    \/ QuantifyReturnValue_deconstruct
    \/ QuantifyReturnValue_drop
    \/ BuilderWrapper_drop
    \/ Quantify_deconstruct
    \/ QuantifiedResponse_deconstruct
    \/ New
    \/ no_verify_in_drop
    \/ Call(Fns, MaxCalls)
    \/ VerifyInUse
    \/ Verify
    \/ Drop

SpecTeardown == Init /\ [][NextTeardown]_vars


(* ------------------------------- claims ------------------------------- *)

\* the most recent call selected a pattern (and so was counted by it)
LastSelected ==
    /\ last.tag # "None"
    /\ last.pat_index >= 0
    /\ last.error # "InputsNotMatchedInCallOrder"

\* the pattern the most recent call selected, and the call's local index
LastPattern == impls[last.f].patterns[last.pat_index + 1]
LastLocal == LastPattern.call_counter - 1

StrictlyAscending(responders) ==
    \A i, j \in 1..Len(responders) :
        i < j => responders[i].response_index < responders[j].response_index

\* the most recent call was answered by this responder: it got its value,
\* or found its owned-once value gone
AnsweredBy(responder) ==
    \/ /\ last.tag = "Evaluated"
       /\ last.value = responder.value
    \/ /\ responder.once
       /\ last.tag = "Error"
       /\ last.error = ValueAlreadyConsumed

\* the position of the responder with the greatest response index that is
\* not above c, 0 if there is none
GreatestAtOrBelow(responders, c) ==
    LET S == {i \in 1..Len(responders) : responders[i].response_index <= c}
    IN IF S = {} THEN 0
       ELSE CHOOSE i \in S :
               \A j \in S : responders[j].response_index
                               <= responders[i].response_index

\* C1: monotonic response selection. A call with local call index c on a
\* pattern whose responders sit at strictly ascending response indices is
\* answered by the responder with the greatest response index <= c (by the
\* scan of eval.rs and by the binary search of call_pattern.rs alike); when
\* there is none, the call fails with NoOutputAvailableForCallPattern.
C1_MonotonicSelection ==
    (LastSelected /\ StrictlyAscending(LastPattern.responders)) =>
        LET rs == LastPattern.responders
            g == GreatestAtOrBelow(rs, LastLocal)
        IN /\ find_responder_by_call_index(rs, LastLocal) = {g}
           /\ IF g = 0
              THEN /\ last.tag = "Error"
                   /\ last.error = "NoOutputAvailableForCallPattern"
              ELSE /\ last.error # "NoOutputAvailableForCallPattern"
                   /\ AnsweredBy(rs[g].responder)

\* C1 witness: a call whose local index lies strictly between the response
\* indices of the second and the third responder got the second one's value
C1_Witness ==
    /\ LastSelected
    /\ Len(LastPattern.responders) = 3
    /\ StrictlyAscending(LastPattern.responders)
    /\ LastPattern.responders[2].response_index < LastLocal
    /\ LastLocal < LastPattern.responders[3].response_index
    /\ last.tag = "Evaluated"
    /\ last.value = LastPattern.responders[2].responder.value

\* a call on a pattern without responders found no output
C1_WitnessNoResponder ==
    /\ LastSelected
    /\ LastPattern.responders = << >>
    /\ last.error = "NoOutputAvailableForCallPattern"

\* the counts of the quantify steps that built the pattern, in order
Times(pattern) ==
    [i \in 1..Len(pattern.quantified) |-> pattern.quantified[i].times]

\* the first local call index of stage j: the counts quantified before it
StageStart(pattern, j) == SumSeq(SubSeq(Times(pattern), 1, j - 1))

\* the stage whose calls include local index c: stage j takes the calls from
\* its start up to the start of stage j + 1, the last stage all calls after
StageOf(pattern, c) ==
    LET k == Len(pattern.responders)
    IN CHOOSE j \in 1..k :
          /\ StageStart(pattern, j) <= c
          /\ j < k => c < StageStart(pattern, j + 1)

\* the series of basic.rs:650-661: returns(1).once().then().returns(2)
\* .n_times(2).then().returns(3).at_least_times(1)
IsTestSeries(pattern) ==
    /\ Times(pattern) = << 1, 2, 1 >>
    /\ Len(pattern.responders) = 3
    /\ \A j \in 1..3 : /\ pattern.responders[j].responder.value = j
                       /\ ~pattern.responders[j].responder.once
    /\ pattern.count_expectation.exactness = "AtLeast"

\* C2: sequenced responses. In a pattern built as stage 0 quantified n0,
\* then() stage 1 quantified n1, ..., the first n0 calls are answered by
\* stage 0, the next n1 by stage 1, and every call past the last declared
\* response index by the last stage; the series of the test yields
\* 1, 2, 2, 3, 3, 3, 3 on its first seven calls.
C2_SequencedResponses ==
    (LastSelected /\ LastPattern.responders # << >>) =>
        /\ AnsweredBy(LastPattern.responders[StageOf(LastPattern, LastLocal)]
                          .responder)
        /\ (IsTestSeries(LastPattern) /\ LastLocal < 7) =>
              /\ last.tag = "Evaluated"
              /\ last.value = << 1, 2, 2, 3, 3, 3, 3 >>[LastLocal + 1]

\* C2 witness: the seventh call of the test's series got 3
C2_Witness ==
    /\ LastSelected
    /\ IsTestSeries(LastPattern)
    /\ LastPattern.call_counter = 7
    /\ last.tag = "Evaluated"
    /\ last.value = 3


\* the verification failure of pattern p (counted from 1) of function f
Violation(f, p) == [kind |-> "FailedVerification", f |-> f, pat_index |-> p - 1]

\* the registered patterns, as pairs of function and position
Registered == {fp \in Fns \X (1..MaxPatterns + 1) :
                  fp[2] <= Len(impls[fp[1]].patterns)}

\* the pattern has one response, quantified once with this exactness
SingleStage(pattern, exactness) ==
    /\ Len(pattern.responders) = 1
    /\ Len(pattern.quantified) = 1
    /\ pattern.quantified[1].exactness = exactness

\* C3: exact quantification. Verification of a pattern quantified
\* n_times(n) succeeds if and only if its matched-call count equals n.
C3_ExactQuantification ==
    phase = "dropped" =>
        \A fp \in Registered :
            LET pattern == impls[fp[1]].patterns[fp[2]]
            IN SingleStage(pattern, "Exact") =>
                  (Violation(fp[1], fp[2]) \notin errors
                      <=> pattern.call_counter = pattern.quantified[1].times)

\* C3 witness: a pattern quantified n_times(3) and matched 4 times failed
C3_Witness ==
    /\ phase = "dropped"
    /\ \E fp \in Registered :
          LET pattern == impls[fp[1]].patterns[fp[2]]
          IN /\ SingleStage(pattern, "Exact")
             /\ pattern.quantified[1].times = 3
             /\ pattern.call_counter = 4
             /\ Violation(fp[1], fp[2]) \in errors

\* a pattern quantified n_times(3) and matched 2 times failed, and one
\* matched 3 times passed
C3_WitnessBelow ==
    /\ phase = "dropped"
    /\ \E fp \in Registered :
          LET pattern == impls[fp[1]].patterns[fp[2]]
          IN /\ SingleStage(pattern, "Exact")
             /\ pattern.quantified[1].times = 3
             /\ pattern.call_counter = 2
             /\ Violation(fp[1], fp[2]) \in errors

C3_WitnessPass ==
    /\ phase = "dropped"
    /\ \E fp \in Registered :
          LET pattern == impls[fp[1]].patterns[fp[2]]
          IN /\ SingleStage(pattern, "Exact")
             /\ pattern.quantified[1].times = 3
             /\ pattern.call_counter = 3
             /\ errors = {}

\* C4: at-least quantification. Verification of a pattern quantified
\* at_least_times(n) succeeds if and only if its matched-call count is at
\* least n.
C4_AtLeastQuantification ==
    phase = "dropped" =>
        \A fp \in Registered :
            LET pattern == impls[fp[1]].patterns[fp[2]]
            IN SingleStage(pattern, "AtLeast") =>
                  (Violation(fp[1], fp[2]) \notin errors
                      <=> pattern.call_counter >= pattern.quantified[1].times)

\* C4 witness: a pattern quantified at_least_times(2) and matched 3 times
\* passed verification
C4_Witness ==
    /\ phase = "dropped"
    /\ \E fp \in Registered :
          LET pattern == impls[fp[1]].patterns[fp[2]]
          IN /\ SingleStage(pattern, "AtLeast")
             /\ pattern.quantified[1].times = 2
             /\ pattern.call_counter = 3
             /\ errors = {}

\* a pattern quantified at_least_times(2) and matched once failed
C4_WitnessBelow ==
    /\ phase = "dropped"
    /\ \E fp \in Registered :
          LET pattern == impls[fp[1]].patterns[fp[2]]
          IN /\ SingleStage(pattern, "AtLeast")
             /\ pattern.quantified[1].times = 2
             /\ pattern.call_counter = 1
             /\ Violation(fp[1], fp[2]) \in errors


\* the pattern's single response is an owned value kept in a take-once cell
OwnedOnce(pattern) ==
    /\ Len(pattern.responders) = 1
    /\ pattern.responders[1].responder.kind = "Value"
    /\ pattern.responders[1].responder.once

C5_WitnessFirst ==
    /\ LastSelected
    /\ OwnedOnce(LastPattern)
    /\ LastLocal = 0
    /\ last.tag = "Evaluated"
    /\ last.value = LastPattern.responders[1].responder.value


\* the most recent call reached the patterns of a function registered with
\* this mode
LastMatchedIn(mode) ==
    /\ last.tag # "None"
    /\ impls[last.f].present
    /\ impls[last.f].pattern_match_mode = mode

\* the most recent call was answered by a responder of this pattern
AnsweredByPattern(pattern) ==
    /\ last.error \notin {"NoMatchingCallPatterns", "NoMockImplementation",
                          "CallOrderNotMatchedForMockFn",
                          "InputsNotMatchedInCallOrder"}
    /\ last.tag = "Evaluated" =>
          \E i \in 1..Len(pattern.responders) :
              pattern.responders[i].responder.value = last.value

\* C6: unordered first match. In any-order mode a call selects the first
\* pattern, in registration order, whose matcher accepts the input: of two
\* patterns A (first) and B that both accept, A is selected, and B only for
\* the inputs A rejects.
C6_UnorderedFirstMatch ==
    LastMatchedIn("InAnyOrder") =>
        LET patterns == impls[last.f].patterns
            accepting == {p \in 1..Len(patterns) :
                             last.input \in patterns[p].input_matcher}
        IN IF accepting = {}
           THEN /\ last.pat_index = -1
                /\ \/ last.error = "NoMatchingCallPatterns"
                   \/ last.tag = "Skipped"
           ELSE \E p \in accepting :
                   /\ \A q \in accepting : p <= q
                   /\ last.pat_index = p - 1
                   /\ AnsweredByPattern(patterns[p])

\* C6 witness: both patterns of the function accept the input, and the call
\* got the value of the first
C6_Witness ==
    /\ LastMatchedIn("InAnyOrder")
    /\ Len(impls[last.f].patterns) = 2
    /\ last.input \in impls[last.f].patterns[1].input_matcher
    /\ last.input \in impls[last.f].patterns[2].input_matcher
    /\ last.pat_index = 0
    /\ last.tag = "Evaluated"
    /\ last.value = impls[last.f].patterns[1].responders[1].responder.value

\* the first pattern rejects the input, and the call got the value of the
\* second
C6_WitnessSecond ==
    /\ LastMatchedIn("InAnyOrder")
    /\ Len(impls[last.f].patterns) = 2
    /\ last.input \notin impls[last.f].patterns[1].input_matcher
    /\ last.pat_index = 1
    /\ last.tag = "Evaluated"
    /\ last.value = impls[last.f].patterns[2].responders[1].responder.value

\* C7: strict order. In in-order mode the call at a global order position
\* selects the pattern of the called function whose range covers the
\* position, and succeeds when its matcher accepts the input; it fails with
\* InputsNotMatchedInCallOrder when that pattern's matcher rejects the
\* input, and with CallOrderNotMatchedForMockFn when no pattern of the
\* called function covers the position.
C7_StrictOrder ==
    LastMatchedIn("InOrder") =>
        LET patterns == impls[last.f].patterns
            covering == {p \in 1..Len(patterns) :
                            matches_global_call_index(patterns[p], last.order)}
        IN IF covering = {}
           THEN /\ last.tag = "Error"
                /\ last.error = "CallOrderNotMatchedForMockFn"
           ELSE \E p \in covering :
                   /\ last.pat_index = p - 1
                   /\ IF last.input \in patterns[p].input_matcher
                      THEN /\ last.tag = "Evaluated"
                           /\ AnsweredByPattern(patterns[p])
                      ELSE /\ last.tag = "Error"
                           /\ last.error = "InputsNotMatchedInCallOrder"

\* patterns P1 and P2 of one function hold the order positions 0 and 1
TwoInOrder(f) ==
    /\ impls[f].present
    /\ impls[f].pattern_match_mode = "InOrder"
    /\ Len(impls[f].patterns) = 2
    /\ matches_global_call_index(impls[f].patterns[1], 0)
    /\ matches_global_call_index(impls[f].patterns[2], 1)

\* C7 witness: the first call brought an input only P2 accepts, and failed
\* with InputsNotMatchedInCallOrder against P1
C7_Witness ==
    /\ TwoInOrder(last.f)
    /\ ncalls = 1
    /\ last.order = 0
    /\ last.input \in impls[last.f].patterns[2].input_matcher
    /\ last.input \notin impls[last.f].patterns[1].input_matcher
    /\ last.tag = "Error"
    /\ last.error = "InputsNotMatchedInCallOrder"
    /\ last.pat_index = 0

\* P1's input and then P2's input: both calls succeeded
C7_WitnessInOrder ==
    /\ TwoInOrder(last.f)
    /\ ncalls = 2
    /\ impls[last.f].patterns[1].call_counter = 1
    /\ impls[last.f].patterns[1].responders[1].responder.taken
    /\ last.order = 1
    /\ last.tag = "Evaluated"
    /\ last.value = impls[last.f].patterns[2].responders[1].responder.value

\* a call past the positions of the called function's patterns
C7_WitnessNotCovered ==
    /\ TwoInOrder(last.f)
    /\ last.order = 2
    /\ last.error = "CallOrderNotMatchedForMockFn"

\* F and G are registered in order, one pattern each: F's holds position 0
\* and G's position 1
RegisteredInOrder(f, g) ==
    /\ f # g
    /\ impls[f].present /\ impls[f].pattern_match_mode = "InOrder"
    /\ impls[g].present /\ impls[g].pattern_match_mode = "InOrder"
    /\ Len(impls[f].patterns) = 1 /\ Len(impls[g].patterns) = 1
    /\ matches_global_call_index(impls[f].patterns[1], 0)
    /\ matches_global_call_index(impls[g].patterns[1], 1)

\* C8: the global order index is shared across functions. With in-order
\* patterns registered for F and then G, the call sequence F, G succeeds,
\* and calling G before F fails with a call-order error.
C8_SharedGlobalIndex ==
    \A f, g \in Fns :
        (RegisteredInOrder(f, g) /\ last.tag # "None" /\ last.f = g) =>
            /\ ncalls = 1 =>
                  /\ last.tag = "Error"
                  /\ last.error = "CallOrderNotMatchedForMockFn"
            /\ (/\ ncalls = 2
                /\ impls[f].patterns[1].call_counter = 1
                /\ last.input \in impls[g].patterns[1].input_matcher) =>
                  /\ last.order = 1
                  /\ last.tag = "Evaluated"
                  /\ last.value = impls[g].patterns[1].responders[1]
                                     .responder.value

\* C8 witness: F was called and matched, then G was called and got its value
C8_Witness ==
    \E f, g \in Fns :
        /\ RegisteredInOrder(f, g)
        /\ ncalls = 2
        /\ impls[f].patterns[1].call_counter = 1
        /\ last.f = g
        /\ last.order = 1
        /\ last.tag = "Evaluated"
        /\ impls[g].patterns[1].call_counter = 1

\* G was called before F and failed
C8_WitnessOutOfOrder ==
    \E f, g \in Fns :
        /\ RegisteredInOrder(f, g)
        /\ ncalls = 1
        /\ last.f = g
        /\ last.error = "CallOrderNotMatchedForMockFn"


\* a series of two stages or more, each quantified explicitly, the last one
\* with at_least_times
SeriesEndingAtLeast(pattern) ==
    /\ Len(pattern.responders) >= 2
    /\ Len(pattern.quantified) = Len(pattern.responders)
    /\ pattern.quantified[Len(pattern.quantified)].exactness = "AtLeast"

\* the series once().then().n_times(2).then().at_least_times(1)
IsOnceTwoAtLeastOne(pattern) ==
    /\ SeriesEndingAtLeast(pattern)
    /\ Times(pattern) = << 1, 2, 1 >>

\* C9: a series closed by an explicit at-least quantifier expects at least
\* the sum of its counts: the floor that then() sets adds nothing to the
\* minimum. The series once().then().n_times(2).then().at_least_times(1)
\* expects at least 4 calls, and its verification fails after 2 calls.
C9_SeriesMinimum ==
    \A fp \in Registered :
        LET pattern == impls[fp[1]].patterns[fp[2]]
            sum == SumSeq(Times(pattern))
        IN SeriesEndingAtLeast(pattern) =>
              /\ pattern.count_expectation
                    = [minimum |-> sum, exactness |-> "AtLeast"]
              /\ IsOnceTwoAtLeastOne(pattern) =>
                    pattern.count_expectation.minimum = 4
              /\ phase = "dropped" =>
                    (Violation(fp[1], fp[2]) \notin errors
                        <=> pattern.call_counter >= sum)

\* C9 witness: the series was called twice and its verification failed
C9_Witness ==
    /\ phase = "dropped"
    /\ \E fp \in Registered :
          LET pattern == impls[fp[1]].patterns[fp[2]]
          IN /\ IsOnceTwoAtLeastOne(pattern)
             /\ pattern.call_counter = 2
             /\ Violation(fp[1], fp[2]) \in errors

\* the series was called four times and its verification passed
C9_WitnessPass ==
    /\ phase = "dropped"
    /\ \E fp \in Registered :
          LET pattern == impls[fp[1]].patterns[fp[2]]
          IN /\ IsOnceTwoAtLeastOne(pattern)
             /\ pattern.call_counter = 4
             /\ errors = {}

\* a series whose last stage, after then(), was given no quantifier
LastStageUnquantified(pattern) ==
    /\ Len(pattern.responders) >= 2
    /\ Len(pattern.quantified) + 1 = Len(pattern.responders)

\* C10: when the stage after then() is left unquantified, verification
\* requires at least one call more than the sum of the exact counts before
\* it; a count of exactly that sum fails.
C10_ThenFloor ==
    phase = "dropped" =>
        \A fp \in Registered :
            LET pattern == impls[fp[1]].patterns[fp[2]]
                sum == SumSeq(Times(pattern))
            IN LastStageUnquantified(pattern) =>
                  (Violation(fp[1], fp[2]) \notin errors
                      <=> pattern.call_counter >= sum + 1)

\* C10 witness: the calls were exactly as many as the counts before the
\* unquantified stage, and verification failed
C10_Witness ==
    /\ phase = "dropped"
    /\ \E fp \in Registered :
          LET pattern == impls[fp[1]].patterns[fp[2]]
          IN /\ LastStageUnquantified(pattern)
             /\ SumSeq(Times(pattern)) >= 2
             /\ pattern.call_counter = SumSeq(Times(pattern))
             /\ Violation(fp[1], fp[2]) \in errors

\* one call more than the counts before the unquantified stage, answered by
\* that stage, and verification passed
C10_WitnessPass ==
    /\ phase = "dropped"
    /\ \E fp \in Registered :
          LET pattern == impls[fp[1]].patterns[fp[2]]
          IN /\ LastStageUnquantified(pattern)
             /\ SumSeq(Times(pattern)) >= 2
             /\ pattern.call_counter = SumSeq(Times(pattern)) + 1
             /\ last.value = pattern.responders[Len(pattern.responders)]
                                .responder.value
             /\ errors = {}


\* C11: a call of a function that has no registry entry fails with
\* NoMockImplementation when the fallback mode is Error and is skipped when
\* it is Unmock; either way no call counter and no order index changes.
C11_NoMockImplementation ==
    [][(ncalls' = ncalls + 1 /\ ~impls[last'.f].present) =>
          /\ impls' = impls
          /\ call_index' = call_index
          /\ last'.pat_index = -1
          /\ IF fallback_mode = "Error"
             THEN /\ last'.tag = "Error"
                  /\ last'.error = "NoMockImplementation"
             ELSE /\ last'.tag = "Skipped"
                  /\ last'.error = "None"]_vars

\* C11 witness: under Unmock a call of an unregistered function was skipped,
\* after a call of a registered one had been counted
C11_Witness ==
    /\ phase = "run"
    /\ fallback_mode = "Unmock"
    /\ ~impls[last.f].present
    /\ last.tag = "Skipped"
    /\ \E fp \in Registered : impls[fp[1]].patterns[fp[2]].call_counter = 1

\* under Error a call of an unregistered function failed
C11_WitnessError ==
    /\ phase = "run"
    /\ fallback_mode = "Error"
    /\ ~impls[last.f].present
    /\ last.tag = "Error"
    /\ last.error = "NoMockImplementation"
    /\ \E fp \in Registered : impls[fp[1]].patterns[fp[2]].call_counter = 1


\* no pattern of the function the most recent call was made to accepts its
\* input
NoneAccepts ==
    \A p \in 1..Len(impls[last.f].patterns) :
        last.input \notin impls[last.f].patterns[p].input_matcher

\* C12: in any-order mode a call whose input no registered pattern of the
\* function accepts fails with NoMatchingCallPatterns under the Error
\* fallback and is skipped under the Unmock fallback.
C12_NoMatchingCallPatterns ==
    (LastMatchedIn("InAnyOrder") /\ NoneAccepts) =>
        /\ last.pat_index = -1
        /\ IF fallback_mode = "Error"
           THEN /\ last.tag = "Error"
                /\ last.error = "NoMatchingCallPatterns"
           ELSE /\ last.tag = "Skipped"
                /\ last.error = "None"

\* C12 witness: two patterns are registered for the function, neither
\* accepts the input, and the call failed with NoMatchingCallPatterns
C12_Witness ==
    /\ LastMatchedIn("InAnyOrder")
    /\ Len(impls[last.f].patterns) = 2
    /\ NoneAccepts
    /\ fallback_mode = "Error"
    /\ last.tag = "Error"
    /\ last.error = "NoMatchingCallPatterns"

\* the same under Unmock: the call was skipped
C12_WitnessUnmock ==
    /\ LastMatchedIn("InAnyOrder")
    /\ impls[last.f].patterns # << >>
    /\ NoneAccepts
    /\ fallback_mode = "Unmock"
    /\ last.tag = "Skipped"


\* the never-called diagnostic of pattern p (counted from 1) of function f
NeverCalled(f, p) == [kind |-> "MockNeverCalled", f |-> f, pat_index |-> p - 1]

\* an in-order clause is sealed with its responder left unquantified
SealsUnquantifiedInOrder ==
    /\ phase = "build"
    /\ chain.state = "Quantify"
    /\ chain.wrapper = "Owned"
    /\ chain.builder.pattern_match_mode = "InOrder"
    /\ chain.builder.quantified = << >>
    /\ chain'.state = "None"

\* C13: an in-order clause (next_call) whose responder is left unquantified
\* is registered as expecting exactly one call, and holds one global order
\* position; when the instance is dropped without that call, verification
\* fails for the pattern (it matched no calls).
C13_ImplicitExactlyOnce ==
    /\ [][SealsUnquantifiedInOrder =>
             LET patterns == impls'[chain.f].patterns
                 pattern == patterns[Len(patterns)]
             IN /\ Len(patterns) = Len(impls[chain.f].patterns) + 1
                /\ pattern.count_expectation
                      = [minimum |-> 1, exactness |-> "Exact"]
                /\ pattern.ordered_call_index_range.end
                      = pattern.ordered_call_index_range.start + 1]_vars
    /\ [](phase = "dropped" =>
             \A fp \in Registered :
                 LET pattern == impls[fp[1]].patterns[fp[2]]
                 IN (/\ impls[fp[1]].pattern_match_mode = "InOrder"
                     /\ pattern.call_counter = 0) =>
                        /\ Violation(fp[1], fp[2]) \in errors
                        /\ NeverCalled(fp[1], fp[2]) \in errors)

\* C13 witness: next_call(..).answers(..) was registered, no call was made,
\* and the verification at teardown failed for it
C13_Witness ==
    /\ phase = "dropped"
    /\ ncalls = 0
    /\ verify_in_drop
    /\ \E fp \in Registered :
          LET pattern == impls[fp[1]].patterns[fp[2]]
          IN /\ impls[fp[1]].pattern_match_mode = "InOrder"
             /\ Len(pattern.responders) = 1
             /\ pattern.responders[1].responder.kind = "Closure"
             /\ pattern.count_expectation
                   = [minimum |-> 1, exactness |-> "Exact"]
             /\ Violation(fp[1], fp[2]) \in errors


\* the responders are one take-once value, this one, at response index 0
OneOwnedOnceAtZero(responders, v) ==
    /\ Len(responders) = 1
    /\ responders[1].response_index = 0
    /\ responders[1].responder = ValueResponder(v, TRUE)

ExactlyOne == [minimum |-> 1, exactness |-> "Exact"]

\* a chain that holds back an owned value is sealed into a clause
SealsHeldValue ==
    /\ phase = "build"
    /\ chain.state = "QuantifyReturnValue"
    /\ chain'.state = "None"

\* a chain that holds back an owned value is dropped
DropsHeldValue ==
    /\ phase = "build"
    /\ chain.state = "QuantifyReturnValue"
    /\ chain'.state = "Dropped"

\* C14, as amended: a builder holding a single owned, non-cloneable value
\* that is finished without an explicit quantifier becomes a pattern of one
\* owned-once responder at response index 0 expecting exactly one call;
\* when it is dropped instead, the value is pushed as an owned-once
\* responder at response index 0, nothing is quantified and nothing is
\* registered; no registered pattern with an owned-once responder expects
\* zero calls.
C14_HeldValueFinishedOrDropped ==
    /\ [][SealsHeldValue =>
             LET patterns == impls'[chain.f].patterns
                 pattern == patterns[Len(patterns)]
             IN /\ Len(patterns) = Len(impls[chain.f].patterns) + 1
                /\ OneOwnedOnceAtZero(pattern.responders, chain.value)
                /\ pattern.count_expectation = ExactlyOne]_vars
    /\ [][DropsHeldValue =>
             /\ OneOwnedOnceAtZero(chain'.builder.responders, chain.value)
             /\ chain'.builder.count_expectation = chain.builder.count_expectation
             /\ chain'.builder.current_response_index = 0
             /\ impls' = impls]_vars
    /\ [](\A fp \in Registered :
             LET pattern == impls[fp[1]].patterns[fp[2]]
             IN (\E i \in 1..Len(pattern.responders) :
                    pattern.responders[i].responder.once) =>
                   pattern.count_expectation.minimum >= 1)

\* C14 witness: next_call(..).returns(v) was sealed as it was, and the
\* pattern registered holds v once and expects exactly one call
C14_Witness ==
    /\ phase = "run"
    /\ \E fp \in Registered :
          LET pattern == impls[fp[1]].patterns[fp[2]]
          IN /\ Len(pattern.responders) = 1
             /\ pattern.responders[1].responder.once
             /\ pattern.responders[1].response_index = 0
             /\ pattern.quantified = << [times |-> 1, exactness |-> "Exact"] >>
             /\ pattern.count_expectation = ExactlyOne

\* the chain was dropped with its value unused
C14_WitnessDropped ==
    /\ chain.state = "Dropped"
    /\ Len(chain.builder.responders) = 1
    /\ chain.builder.responders[1].responder.once
    /\ chain.builder.count_expectation = CallCountExpectation_default

\* C14 as stated: finished or dropped, the builder holds one owned-once
\* responder at response index 0 and expects exactly one call
C14_AsStated ==
    /\ chain.state = "Dropped" =>
          /\ Len(chain.builder.responders) = 1
          /\ chain.builder.responders[1].response_index = 0
          /\ chain.builder.responders[1].responder.once
          /\ chain.builder.count_expectation = ExactlyOne
    /\ \A fp \in Registered :
          LET pattern == impls[fp[1]].patterns[fp[2]]
          IN (/\ Len(pattern.responders) = 1
              /\ pattern.responders[1].responder.once) =>
                /\ pattern.responders[1].response_index = 0
                /\ pattern.count_expectation = ExactlyOne


\* verification has run, and no call was made before it or since
VerifiedWithoutCalls == verifications # << >> /\ ncalls = 0

\* C15: a freshly built instance verified with zero calls never fails for a
\* pattern whose quantification was left unspecified (at least 0), and
\* always fails, with the count mismatch and the never-called diagnostic,
\* for a pattern quantified once().
C15_ZeroCallVerification ==
    VerifiedWithoutCalls =>
        \A fp \in Registered :
            LET pattern == impls[fp[1]].patterns[fp[2]]
            IN /\ pattern.quantified = << >> =>
                     /\ Violation(fp[1], fp[2]) \notin errors
                     /\ NeverCalled(fp[1], fp[2]) \notin errors
               /\ pattern.quantified = << [times |-> 1, exactness |-> "Exact"] >> =>
                     /\ Violation(fp[1], fp[2]) \in errors
                     /\ NeverCalled(fp[1], fp[2]) \in errors

\* C15 witness: next_call(..).returns(v).once(), dropped without a call,
\* reported as matched no calls and as never called
C15_Witness ==
    /\ phase = "dropped"
    /\ VerifiedWithoutCalls
    /\ \E fp \in Registered :
          LET pattern == impls[fp[1]].patterns[fp[2]]
          IN /\ impls[fp[1]].pattern_match_mode = "InOrder"
             /\ pattern.quantified = << [times |-> 1, exactness |-> "Exact"] >>
             /\ pattern.responders[1].responder.once
             /\ errors = {Violation(fp[1], fp[2]), NeverCalled(fp[1], fp[2])}

\* a pattern left unquantified, verified without a call: nothing reported
C15_WitnessDefault ==
    /\ VerifiedWithoutCalls
    /\ \E fp \in Registered :
          /\ impls[fp[1]].patterns[fp[2]].quantified = << >>
          /\ impls[fp[1]].patterns[fp[2]].responders # << >>
    /\ errors = {}


\* every unsatisfied expectation of the registry is among the errors
AllUnsatisfiedReported ==
    \A fp \in Registered :
        LET pattern == impls[fp[1]].patterns[fp[2]]
        IN ~is_satisfied(pattern.count_expectation, pattern.call_counter) =>
              Violation(fp[1], fp[2]) \in errors

\* C16: verification runs by default when the instance is torn down; after
\* no_verify_in_drop() teardown performs no verification and reports
\* nothing, while an explicit verify() on such an instance still reports
\* every unsatisfied expectation.
C16_VerifyInDrop ==
    /\ [][(phase = "run" /\ phase' # "run" /\ verify_in_drop) =>
             /\ phase' = "dropped"
             /\ Len(verifications') = Len(verifications) + 1]_vars
    /\ [][(phase = "run" /\ phase' = "discarded") =>
             /\ ~verify_in_drop
             /\ errors' = errors
             /\ verifications' = verifications
             /\ impls' = impls]_vars
    /\ [][(phase = "run" /\ phase' = "dropped" /\ ~verify_in_drop) =>
             verify_in_drop']_vars
    /\ [](phase = "dropped" =>
             /\ verifications # << >>
             /\ verifications[Len(verifications)] = ncalls
             /\ AllUnsatisfiedReported)

\* C16 witness: an instance with an expectation unsatisfied was torn down
\* after no_verify_in_drop(), and nothing was verified or reported
C16_Witness ==
    /\ phase = "discarded"
    /\ ~verify_in_drop
    /\ verifications = << >>
    /\ errors = {}
    /\ \E fp \in Registered :
          LET pattern == impls[fp[1]].patterns[fp[2]]
          IN ~is_satisfied(pattern.count_expectation, pattern.call_counter)

\* C17: verification is idempotent and read-only: a run of it changes no
\* call counter, order index or quantification, and when it runs again with
\* no call in between it reports the same violations.
C17_VerificationReadOnly ==
    [][Len(verifications') = Len(verifications) + 1 =>
          /\ impls' = impls
          /\ call_index' = call_index
          /\ current_call_index' = current_call_index
          /\ ncalls' = ncalls
          /\ (/\ verifications # << >>
              /\ verifications[Len(verifications)] = ncalls) =>
                errors' = errors]_vars

\* C17 witness: verification ran twice with no call in between, after a
\* call had been counted, and reports a violation
C17_Witness ==
    /\ Len(verifications) = 2
    /\ verifications[1] = verifications[2]
    /\ ncalls = verifications[2]
    /\ errors # {}
    /\ \E fp \in Registered : impls[fp[1]].patterns[fp[2]].call_counter >= 1


\* what verification has to report for the registry: for every pattern
\* whose count does not meet its expectation the count mismatch, and the
\* never-called diagnostic beside it when the pattern was not called at all
ExpectedViolations ==
    UNION {LET pattern == impls[fp[1]].patterns[fp[2]]
           IN IF is_satisfied(pattern.count_expectation, pattern.call_counter)
              THEN {}
              ELSE IF pattern.call_counter = 0
              THEN {Violation(fp[1], fp[2]), NeverCalled(fp[1], fp[2])}
              ELSE {Violation(fp[1], fp[2])} : fp \in Registered}

\* C18: verification does not stop at the first violation: what it reports
\* is the violations of every unsatisfied pattern of every registered
\* function together, the count mismatch and the never-called diagnostic of
\* one function both among them.
C18_ViolationsAccumulate ==
    phase = "dropped" => errors = ExpectedViolations

\* C18 witness: patterns of two functions were never called, and the count
\* mismatch and the never-called diagnostic of both were reported
C18_Witness ==
    /\ phase = "dropped"
    /\ \E f, g \in Fns :
          /\ f # g
          /\ {Violation(f, 1), NeverCalled(f, 1),
              Violation(g, 1), NeverCalled(g, 1)} \subseteq errors

\* two patterns of one function unsatisfied, one of them called
C18_WitnessSameFunction ==
    /\ phase = "dropped"
    /\ \E f \in Fns :
          /\ Len(impls[f].patterns) = 2
          /\ impls[f].patterns[2].call_counter >= 1
          /\ errors = {Violation(f, 1), NeverCalled(f, 1), Violation(f, 2)}


\* the calls the threads have completed, each as << thread, number >>
ThreadResults ==
    { c \in Threads \X (1..MaxThreadCalls) : c[2] <= Len(threads[c[1]].results) }

ThreadResult(c) == threads[c[1]].results[c[2]]

\* the completed calls that selected this responder of this pattern
SelectedResponder(f, p, pos) ==
    { c \in ThreadResults : /\ ThreadResult(c).f = f
                            /\ ThreadResult(c).pat_index = p - 1
                            /\ ThreadResult(c).pos = pos }

C19_WitnessInFlight ==
    \E t \in Threads, d \in ThreadResults :
        /\ threads[t].pc = "counted"
        /\ d[1] # t
        /\ ThreadResult(d).f = threads[t].f
        /\ ThreadResult(d).pat_index = threads[t].pat - 1
        /\ ThreadResult(d).pos = threads[t].pos
        /\ ThreadResult(d).tag = "Evaluated"
        /\ LET r == impls[threads[t].f].patterns[threads[t].pat]
                        .responders[threads[t].pos].responder
           IN r.kind = "Value" /\ r.once /\ r.taken

\* the positions in the global order the threads hold, each as
\* << thread, number >>
ThreadPositions ==
    { c \in Threads \X (1..MaxThreadCalls) : c[2] <= Len(threads[c[1]].orders) }

\* C20: positions in the global order. The positions handed to the
\* in-order calls on one instance are pairwise distinct under any
\* interleaving of the threads, and within one thread each in-order call
\* gets a position strictly greater than that of every earlier in-order
\* call of the thread, whatever the function.
C20_DistinctPositions ==
    /\ \A c, d \in ThreadPositions :
          c # d => threads[c[1]].orders[c[2]] # threads[d[1]].orders[d[2]]
    /\ \A t \in Threads :
          \A i, j \in 1..Len(threads[t].orders) :
              i < j => threads[t].orders[i] < threads[t].orders[j]

\* C20 witness: two threads are inside in-order calls of two functions at
\* the same time, each with a position of its own
C20_Witness ==
    \E t, u \in Threads :
        /\ t # u
        /\ threads[t].pc = "matched" /\ threads[u].pc = "matched"
        /\ threads[t].f # threads[u].f
        /\ threads[t].order = 0 /\ threads[u].order = 1
        /\ threads[t].orders = << 0 >>
        /\ threads[u].orders = << 1 >>

\* one thread made in-order calls of two functions, one after the other
C20_WitnessOneThread ==
    \E t \in Threads :
        /\ Len(threads[t].results) = 2
        /\ threads[t].results[1].f # threads[t].results[2].f
        /\ threads[t].results[1].tag = "Evaluated"
        /\ threads[t].results[2].tag = "Evaluated"
        /\ threads[t].orders = << 0, 1 >>


\* the responder the most recent call selected: its position in
\* LastPattern.responders, 0 if the call found none
LastPos == GreatestAtOrBelow(LastPattern.responders, LastLocal)
LastResponder == LastPattern.responders[LastPos].responder

\* the stored response of a responder: all of it but the state of its cell
Stored(responder) ==
    [kind |-> responder.kind, once |-> responder.once,
     value |-> responder.value]

\* the responders of the registry, each as << function, pattern, position >>
Responders(reg) ==
    { r \in Fns \X (1..MaxPatterns + 1) \X (1..MaxStages + 1) :
        /\ reg[r[1]].present
        /\ r[2] <= Len(reg[r[1]].patterns)
        /\ r[3] <= Len(reg[r[1]].patterns[r[2]].responders) }

ResponderAt(reg, r) == reg[r[1]].patterns[r[2]].responders[r[3]].responder

\* C21: repeatable value responders. A cloneable value responder, as
\* each_call(..).returns(v) installs it, yields v to every call that
\* selects it, any number of times (the responder a call selects being
\* well defined where the response indices ascend strictly); and no step of an instance in use
\* changes what a responder has stored, the one change to a responder being
\* the emptying of an owned-once cell.
C21_RepeatableValue ==
    [][/\ (LastSelected /\ LastPos # 0
           /\ StrictlyAscending(LastPattern.responders)
           /\ LastResponder.kind = "Value" /\ ~LastResponder.once
             => /\ last.tag = "Evaluated"
                /\ last.value = LastResponder.value
                /\ ~LastResponder.taken)'
       /\ phase = "run" =>
            /\ Responders(impls') = Responders(impls)
            /\ \A r \in Responders(impls) :
                  /\ Stored(ResponderAt(impls', r)) = Stored(ResponderAt(impls, r))
                  /\ ResponderAt(impls', r) # ResponderAt(impls, r)
                        => /\ ResponderAt(impls, r).kind = "Value"
                           /\ ResponderAt(impls, r).once]_vars

\* C21 witness: the seventh call of each_call(..).returns(v), left
\* unquantified, got v like the calls before it
C21_Witness ==
    /\ LastSelected
    /\ LastPos = 1
    /\ Len(LastPattern.responders) = 1
    /\ LastPattern.quantified = << >>
    /\ LastResponder.kind = "Value" /\ ~LastResponder.once
    /\ LastLocal = SeriesCalls - 1
    /\ last.tag = "Evaluated"
    /\ last.value = LastResponder.value


\* the pattern's one responder panics
Panicking(pattern) ==
    /\ Len(pattern.responders) = 1
    /\ pattern.responders[1].responder.kind = "Panic"

\* the most recent call was of a stubbed function, and q is the first of
\* its patterns to accept the input, after a panicking pattern that
\* rejects it
AfterPanicking(q) ==
    /\ last.tag # "None"
    /\ impls[last.f].present
    /\ q \in 1..Len(impls[last.f].patterns)
    /\ last.input \in impls[last.f].patterns[q].input_matcher
    /\ \A p \in 1..(q - 1) :
          last.input \notin impls[last.f].patterns[p].input_matcher
    /\ \E p \in 1..(q - 1) : Panicking(impls[last.f].patterns[p])

\* C22: explicit failure. A call that selects a panics(msg) responder fails
\* with ExplicitPanic carrying msg; a call whose input the panicking
\* pattern rejects and a later pattern is the first to accept is answered
\* by the later pattern: with its value, or with its own message if it
\* panics too.
C22_ExplicitPanic ==
    /\ (LastSelected /\ LastPos # 0 /\ LastResponder.kind = "Panic")
          => /\ last.tag = "Error"
             /\ last.error = "ExplicitPanic"
             /\ last.value = LastResponder.value
    /\ \A q \in 1..MaxPatterns + 1 :
          AfterPanicking(q) =>
             LET later == impls[last.f].patterns[q]
             IN /\ last.pat_index = q - 1
                /\ later.responders = << >>
                      => last.error = "NoOutputAvailableForCallPattern"
                /\ later.responders # << >>
                      => LET responder == later.responders[1].responder
                         IN /\ last.value = responder.value
                            /\ last.tag = IF responder.kind = "Value"
                                          THEN "Evaluated" ELSE "Error"
                            /\ last.error = IF responder.kind = "Value"
                                            THEN "None" ELSE "ExplicitPanic"

\* C22 witness: as in referenced_with_default_return_value_works, the
\* first pattern panics, rejects the input, and the second pattern's value
\* came back
C22_Witness ==
    /\ AfterPanicking(2)
    /\ impls[last.f].patterns[2].responders # << >>
    /\ impls[last.f].patterns[2].responders[1].responder.kind = "Value"
    /\ last.tag = "Evaluated"
    /\ last.value = impls[last.f].patterns[2].responders[1].responder.value

\* a call selected the panicking pattern and failed with its message
C22_WitnessPanic ==
    /\ LastSelected /\ LastPos # 0
    /\ LastResponder.kind = "Panic"
    /\ last.error = "ExplicitPanic"
    /\ last.value = LastResponder.value
    /\ LastLocal = 1


\* the most recent call was of a function whose output is a 'static
\* reference, and selected a responder
LastSelectedStaticRef ==
    /\ LastSelected
    /\ last.f \in StaticRefFns
    /\ LastPos # 0

C23_WitnessValue ==
    /\ LastSelectedStaticRef
    /\ LastResponder.kind = "Value" /\ LastResponder.once
    /\ ~LastResponder.taken
    /\ last.error = "CannotBorrowValueStatically"

\* an answering closure failed the call
C23_WitnessClosure ==
    /\ LastSelectedStaticRef
    /\ LastResponder.kind = "Closure"
    /\ last.error = "CannotBorrowValueProducedByClosure"

\* answers_leaked_ref gave the call a reference made from its input
C23_WitnessLeaked ==
    /\ LastSelectedStaticRef
    /\ LastResponder.kind = "StaticRefClosure" /\ LastResponder.by_input
    /\ last.tag = "Evaluated"
    /\ last.value = LastResponder.value + last.input

\* returns_static gave the call its reference
C23_WitnessStatic ==
    /\ LastSelectedStaticRef
    /\ LastResponder.kind = "StaticRefClosure" /\ ~LastResponder.by_input
    /\ last.tag = "Evaluated"
    /\ last.value = LastResponder.value


\* what the registry keeps of a builder
AsBuilt(pattern, b) ==
    /\ pattern.input_matcher = b.input_matcher
    /\ pattern.responders = b.responders
    /\ pattern.count_expectation = b.count_expectation
    /\ pattern.call_counter = 0

\* C24: stubs. A stub that declares no call pattern is rejected when it is
\* deconstructed, with the error 'Stub contained no call patterns', and
\* nothing is put into the registry; a stub with patterns adds exactly its
\* patterns to its function's entry, in the order of their declaration,
\* after those the entry has.
C24_StubPatterns ==
    [][(each.active /\ ~each'.active) =>
          LET f == each.f
              before == Len(impls[f].patterns)
          IN IF each.patterns = << >>
             THEN /\ phase' = "failed"
                  /\ errors' = {[kind |-> "StubContainedNoCallPatterns",
                                 f |-> f, pat_index |-> -1]}
                  /\ impls' = impls
             ELSE /\ phase' = phase /\ errors' = errors
                  /\ \A g \in Fns \ {f} : impls'[g] = impls[g]
                  /\ impls'[f].present
                  /\ Len(impls'[f].patterns) = before + Len(each.patterns)
                  /\ \A i \in 1..before :
                        impls'[f].patterns[i] = impls[f].patterns[i]
                  /\ \A i \in 1..Len(each.patterns) :
                        AsBuilt(impls'[f].patterns[before + i],
                                each.patterns[i])]_vars

\* C24 witness: a stub of two patterns with different matchers and
\* responders is in the registry, first pattern first
C24_Witness ==
    \E f \in Fns :
        /\ phase = "build" /\ ~each.active
        /\ Len(impls[f].patterns) = 2
        /\ impls[f].patterns[1].input_matcher = {2}
        /\ impls[f].patterns[2].input_matcher = {1}
        /\ Panicking(impls[f].patterns[1])
        /\ impls[f].patterns[2].responders # << >>
        /\ impls[f].patterns[2].responders[1].responder.kind = "Value"

\* a stub without patterns was rejected
C24_WitnessEmpty ==
    /\ phase = "failed"
    /\ errors = {[kind |-> "StubContainedNoCallPatterns",
                  f |-> "F", pat_index |-> -1]}
    /\ \A f \in Fns : ~impls[f].present


\* every quantified stage of the pattern or builder that is not exactly
\* quantified is its last stage: no quantifier and no responder follows it
ExactBeforeLast(b) ==
    \A i \in 1..Len(b.quantified) :
        b.quantified[i].exactness # "Exact" =>
            /\ i = Len(b.quantified)
            /\ i = Len(b.responders)

\* C25: then() only after an exact quantifier. In every pattern that can be
\* built, registered or still in the making, every stage but the last is
\* exactly quantified, and an at_least_times stage is the final stage.
C25_ExactBeforeThen ==
    /\ \A fp \in Registered : ExactBeforeLast(impls[fp[1]].patterns[fp[2]])
    /\ chain.wrapper = "Owned" => ExactBeforeLast(chain.builder)
    /\ \A i \in 1..Len(each.patterns) : ExactBeforeLast(each.patterns[i])

\* C25 witness: a registered pattern of three stages, the first two exactly
\* quantified and the last one at_least_times
C25_Witness ==
    \E fp \in Registered :
        LET pattern == impls[fp[1]].patterns[fp[2]]
        IN /\ Len(pattern.responders) = 3
           /\ Len(pattern.quantified) = 3
           /\ pattern.quantified[1].exactness = "Exact"
           /\ pattern.quantified[2].exactness = "Exact"
           /\ pattern.quantified[3].exactness = "AtLeast"
           /\ pattern.count_expectation.exactness = "AtLeast"


\* C26: pass-through. A matched call whose selected responder is the
\* pass-through responder (unmocked) is reported as skipped, with the
\* inputs of the call for the real implementation, and with no mocked
\* output and no error; the responder stays as it was.
C26_PassThrough ==
    (LastSelected /\ LastPos # 0 /\ LastResponder.kind = "Unmock") =>
        /\ last.tag = "Skipped"
        /\ last.input \in Inputs
        /\ last.input \in LastPattern.input_matcher
        /\ last.value = 0
        /\ last.error = "None"
        /\ LastResponder = OtherResponder("Unmock", 0)

\* C26 witness: a call of the function with an owned output selected the
\* pass-through responder and was skipped
C26_Witness ==
    /\ LastSelected /\ LastPos # 0
    /\ last.f \in SizedFns
    /\ LastResponder.kind = "Unmock"
    /\ last.tag = "Skipped"
    /\ last.input = 2

\* so was a call of the function with the 'static reference output
C26_WitnessStaticRef ==
    /\ LastSelected /\ LastPos # 0
    /\ last.f \in StaticRefFns
    /\ LastResponder.kind = "Unmock"
    /\ last.tag = "Skipped"
    /\ LastLocal = 1


\* the completed calls whose output borrows a value that came out of a
\* cell as an owned response
BorrowedFromOwned ==
    { c \in ThreadResults :
        LET r == ThreadResult(c)
        IN /\ r.tag = "Evaluated"
           /\ r.pos # 0
           /\ impls[r.f].patterns[r.pat_index + 1].responders[r.pos]
                 .responder.kind = "Value"
           /\ r.f \in MixedFns => IsOk(r.value) }

IsPrefix(s, t) ==
    /\ Len(s) <= Len(t)
    /\ \A i \in 1..Len(s) : s[i] = t[i]

C27_WitnessErr ==
    \E c \in ThreadResults :
        /\ ThreadResult(c).f \in MixedFns
        /\ ThreadResult(c).tag = "Evaluated"
        /\ ~IsOk(ThreadResult(c).value)
        /\ ThreadResult(c).pos # 0
        /\ value_chain = << >>

\* a borrowable value was lent from where it is
C27_WitnessBorrowable ==
    \E c \in ThreadResults :
        /\ ThreadResult(c).tag = "Evaluated"
        /\ ThreadResult(c).pos # 0
        /\ impls[ThreadResult(c).f].patterns[ThreadResult(c).pat_index + 1]
              .responders[ThreadResult(c).pos].responder.kind = "Borrowable"
        /\ value_chain = << >>


\* the call counters of the registry, per registered pattern
CallCounters(reg) ==
    [fp \in { x \in Fns \X (1..MaxPatterns + 1) : x[2] <= Len(reg[x[1]].patterns) }
        |-> reg[fp[1]].patterns[fp[2]].call_counter]

\* C28: a call and the call counters. A call changes at most one pattern
\* call counter, by one: that of the pattern it selected for the called
\* function. A call that selects no pattern (no entry for the function, no
\* matching pattern, an order position no pattern covers, inputs rejected
\* at the right order position) leaves every call counter of every
\* function as it was.
C28_OneCounterPerCall ==
    [][ncalls' = ncalls + 1 =>
          LET before == CallCounters(impls)
              after == CallCounters(impls')
              changed == { fp \in DOMAIN before : after[fp] # before[fp] }
          IN /\ DOMAIN after = DOMAIN before
             /\ IF LastSelected'
                THEN /\ changed = { << last'.f, last'.pat_index + 1 >> }
                     /\ \A fp \in changed : after[fp] = before[fp] + 1
                ELSE changed = {}]_vars

\* C28 witness: with a pattern for each of two functions, both called
\* before, a call of one function was counted by its pattern alone
C28_Witness ==
    /\ LastSelected
    /\ \A f \in Fns : /\ Len(impls[f].patterns) = 1
                      /\ impls[f].patterns[1].call_counter >= 1
    /\ ncalls = SumSeq([i \in 1..2 |->
                  impls[IF i = 1 THEN "F" ELSE "G"].patterns[1].call_counter])

\* a call of the right order position with rejected inputs was counted by
\* no pattern
C28_WitnessRejected ==
    /\ last.error = "InputsNotMatchedInCallOrder"
    /\ \A fp \in DOMAIN CallCounters(impls) : CallCounters(impls)[fp] = 0

\* two patterns of one function, and the call was counted by the second
C28_WitnessSecond ==
    /\ LastSelected
    /\ last.pat_index = 1
    /\ impls[last.f].patterns[1].call_counter = 0
    /\ impls[last.f].patterns[2].call_counter = 1


\* the step is a call of a function registered with this mode
CallOf(mode) ==
    /\ ncalls' = ncalls + 1
    /\ impls[last'.f].present
    /\ impls[last'.f].pattern_match_mode = mode

\* C29: stubs and the global order. A call of a function in InAnyOrder
\* mode leaves the global ordered call index as it is, whether the call is
\* evaluated, fails or is skipped; a step that changes the index is a call
\* of a function in InOrder mode.
C29_AnyOrderKeepsIndex ==
    [][/\ CallOf("InAnyOrder") => call_index' = call_index
       /\ call_index' # call_index => CallOf("InOrder")]_vars

\* C29 witness: after an in-order call took position 0, a call of a
\* function in InAnyOrder mode was evaluated and the index is still 1
C29_Witness ==
    /\ call_index = 1
    /\ ncalls = 2
    /\ impls[last.f].present
    /\ impls[last.f].pattern_match_mode = "InAnyOrder"
    /\ last.tag = "Evaluated"

\* an any-order call failed and the index is where it was
C29_WitnessFailed ==
    /\ call_index = 0
    /\ ncalls = 2
    /\ impls[last.f].present
    /\ impls[last.f].pattern_match_mode = "InAnyOrder"
    /\ last.tag = "Error"
    /\ last.error = ValueAlreadyConsumed

\* an any-order call was skipped and the index is where it was
C29_WitnessSkipped ==
    /\ call_index = 0
    /\ ncalls >= 1
    /\ impls[last.f].present
    /\ impls[last.f].pattern_match_mode = "InAnyOrder"
    /\ last.tag = "Skipped"


\* the function is registered in InOrder mode
InOrderFn(f) == impls[f].present /\ impls[f].pattern_match_mode = "InOrder"

\* the calls of functions in InOrder mode made so far: those completed and
\* those a thread is inside of, past match_pattern
InOrderCalls ==
    Cardinality({ c \in ThreadResults : InOrderFn(ThreadResult(c).f) })
    + Cardinality({ t \in Threads :
                      threads[t].pc # "idle" /\ InOrderFn(threads[t].f) })

\* C30: in-order calls and the global order. Every call of a function in
\* InOrder mode advances the global ordered call index by exactly one,
\* also when it fails with CallOrderNotMatchedForMockFn or with
\* InputsNotMatchedInCallOrder: the index is at every moment the number of
\* in-order calls made so far.
C30_IndexCountsInOrderCalls ==
    phase = "run" => call_index = InOrderCalls

\* C30 witness: two in-order calls were made, the second found its
\* position covered by no pattern, and the index is 2
C30_Witness ==
    /\ call_index = 2
    /\ \E c \in ThreadResults :
          /\ ThreadResult(c).order = 1
          /\ ThreadResult(c).error = "CallOrderNotMatchedForMockFn"
    /\ \E c \in ThreadResults :
          /\ ThreadResult(c).order = 0
          /\ ThreadResult(c).tag = "Evaluated"

\* a call at the right position with rejected inputs took the position
C30_WitnessRejected ==
    /\ call_index = 1
    /\ \E c \in ThreadResults :
          /\ ThreadResult(c).order = 0
          /\ ThreadResult(c).error = "InputsNotMatchedInCallOrder"


\* the completed calls that selected this pattern
SelectedPattern(f, p) ==
    { c \in ThreadResults : /\ ThreadResult(c).f = f
                            /\ ThreadResult(c).pat_index = p - 1
                            /\ ThreadResult(c).error
                                  # "InputsNotMatchedInCallOrder" }

\* the threads inside a call that selected this pattern and has taken its
\* local call index, the responder not yet produced
CountedInFlight(f, p) ==
    { t \in Threads : /\ threads[t].pc = "counted"
                      /\ threads[t].f = f
                      /\ threads[t].pat = p }

\* C31: what a call counter counts. A pattern's call counter is incremented
\* once per call that selects the pattern, before the responder is
\* produced, and also when production then fails: at every moment the
\* counter is the number of calls that selected the pattern and took their
\* local call index, whether they returned an output, failed or are still
\* to produce their response.
C31_CounterCountsSelections ==
    \A f \in Fns :
        \A p \in 1..Len(impls[f].patterns) :
            impls[f].patterns[p].call_counter =
                Cardinality(SelectedPattern(f, p))
                + Cardinality(CountedInFlight(f, p))

\* C31 witness: two calls selected the pattern, one of them returned its
\* owned-once value and the other failed: the counter is 2
C31_Witness ==
    \E c, d \in ThreadResults :
        /\ c # d
        /\ SelectedPattern(ThreadResult(c).f, ThreadResult(c).pat_index + 1)
              = {c, d}
        /\ ThreadResult(c).tag = "Evaluated"
        /\ ThreadResult(d).tag = "Error"
        /\ ThreadResult(d).error = ValueAlreadyConsumed
        /\ impls[ThreadResult(c).f].patterns[ThreadResult(c).pat_index + 1]
              .call_counter = 2

\* both calls are counted while neither has produced its response
C31_WitnessBefore ==
    \E f \in Fns :
        /\ Len(impls[f].patterns) >= 1
        /\ CountedInFlight(f, 1) = Threads
        /\ ThreadResults = {}
        /\ impls[f].patterns[1].call_counter = NumThreads


\* the patterns of the function last called whose global order range holds
\* the position the call took
CoveringLast ==
    { p \in 1..Len(impls[last.f].patterns) :
        matches_global_call_index(impls[last.f].patterns[p], last.order) }

\* the most recent call was one of a function registered in InOrder mode
\* that the order did not admit: no pattern of the function covers its
\* position, or the pattern that does rejects the input
LastMismatchedInOrder ==
    /\ last.tag # "None"
    /\ InOrderFn(last.f)
    /\ \/ CoveringLast = {}
       \/ \E p \in CoveringLast :
             last.input \notin impls[last.f].patterns[p].input_matcher

\* C32: strict order and the Unmock fallback. A call of a function in
\* InOrder mode whose order position no pattern of the function covers, or
\* whose input the pattern at that position rejects, is an error under
\* either fallback mode. The fallback skips a call only when the function
\* has no entry or when, in InAnyOrder mode, no pattern accepts the input;
\* any other skipped call selected a pass-through responder.
C32_StrictOrderNotRescued ==
    /\ LastMismatchedInOrder =>
          /\ last.tag = "Error"
          /\ last.error = IF CoveringLast = {}
                          THEN "CallOrderNotMatchedForMockFn"
                          ELSE "InputsNotMatchedInCallOrder"
    /\ last.tag = "Skipped" =>
          \/ /\ fallback_mode = "Unmock"
             /\ ~impls[last.f].present
          \/ /\ fallback_mode = "Unmock"
             /\ LastMatchedIn("InAnyOrder")
             /\ NoneAccepts
          \/ /\ LastSelected
             /\ LastPos # 0
             /\ LastResponder.kind = "Unmock"

\* C32 witness: under the Unmock fallback an in-order call at a position no
\* pattern covers failed
C32_Witness ==
    /\ fallback_mode = "Unmock"
    /\ LastMismatchedInOrder
    /\ CoveringLast = {}
    /\ last.tag = "Error"
    /\ last.error = "CallOrderNotMatchedForMockFn"

\* under the Unmock fallback an in-order call at the covered position with
\* a rejected input failed
C32_WitnessInputs ==
    /\ fallback_mode = "Unmock"
    /\ LastMismatchedInOrder
    /\ CoveringLast # {}
    /\ last.tag = "Error"
    /\ last.error = "InputsNotMatchedInCallOrder"

\* the fallback skipped a call of a function without an entry
C32_WitnessSkipped ==
    /\ fallback_mode = "Unmock"
    /\ ~impls[last.f].present
    /\ last.tag = "Skipped"

\* an in-order call was skipped by a pass-through responder
C32_WitnessPassThrough ==
    /\ InOrderFn(last.f)
    /\ LastSelected
    /\ last.tag = "Skipped"


\* the patterns of the function whose matcher accepts the input
Accepting(f, input) ==
    { p \in 1..Len(impls[f].patterns) :
        input \in impls[f].patterns[p].input_matcher }

\* the pattern has had the calls it expects, or its owned-once value is gone
UsedUp(pattern) ==
    \/ /\ pattern.count_expectation.exactness = "Exact"
       /\ pattern.call_counter >= pattern.count_expectation.minimum
    \/ \E i \in 1..Len(pattern.responders) :
          pattern.responders[i].responder.taken

\* C33: unordered selection and call counts. A call of a function in
\* InAnyOrder mode selects the first pattern in registration order whose
\* matcher accepts the input, whatever the call counters are: a pattern
\* that has reached its expected count, or whose owned-once value is
\* consumed, is still the one selected and counted, and every later pattern
\* that accepts the same input is left as it was.
C33_SelectionIgnoresCounts ==
    [][CallOf("InAnyOrder") =>
          LET f == last'.f
              accepting == Accepting(f, last'.input)
          IN accepting # {} =>
                \E p \in accepting :
                    /\ \A q \in accepting : p <= q
                    /\ last'.pat_index = p - 1
                    /\ LastSelected'
                    /\ impls'[f].patterns[p].call_counter
                          = impls[f].patterns[p].call_counter + 1
                    /\ \A q \in accepting \ {p} :
                          impls'[f].patterns[q] = impls[f].patterns[q]]_vars

\* C33 witness: the first of two patterns that accept the input was used up
\* by an earlier call, and the next call selected it again and found its
\* value consumed; the second pattern was never called
C33_Witness ==
    /\ LastMatchedIn("InAnyOrder")
    /\ Accepting(last.f, last.input) = {1, 2}
    /\ last.pat_index = 0
    /\ last.tag = "Error"
    /\ last.error = ValueAlreadyConsumed
    /\ UsedUp(impls[last.f].patterns[1])
    /\ impls[last.f].patterns[1].count_expectation
          = [minimum |-> 1, exactness |-> "Exact"]
    /\ impls[last.f].patterns[1].call_counter = 2
    /\ impls[last.f].patterns[2].call_counter = 0

\* a pattern past the count it expects exactly, with a value that can be
\* cloned, answered once more
C33_WitnessAnswered ==
    /\ LastMatchedIn("InAnyOrder")
    /\ Accepting(last.f, last.input) = {1, 2}
    /\ last.pat_index = 0
    /\ last.tag = "Evaluated"
    /\ impls[last.f].patterns[1].count_expectation.exactness = "Exact"
    /\ impls[last.f].patterns[1].call_counter
          > impls[last.f].patterns[1].count_expectation.minimum
    /\ impls[last.f].patterns[2].call_counter = 0


\* the registered patterns of the functions in InOrder mode
InOrderPatterns == { fp \in Registered : InOrderFn(fp[1]) }

RangeOf(fp) == impls[fp[1]].patterns[fp[2]].ordered_call_index_range

MinimumOf(fp) == impls[fp[1]].patterns[fp[2]].count_expectation.minimum

\* the in-order patterns whose range holds the position
CoveringPosition(pos) ==
    { fp \in InOrderPatterns :
        matches_global_call_index(impls[fp[1]].patterns[fp[2]], pos) }

\* the sum of the minimums of the in-order patterns
RECURSIVE SumMinimums(_)
SumMinimums(S) ==
    IF S = {} THEN 0
    ELSE LET fp == CHOOSE x \in S : TRUE
         IN MinimumOf(fp) + SumMinimums(S \ {fp})

\* C34: the global order ranges. The ranges given to the in-order patterns
\* of an instance are each as long as the pattern's minimum call count,
\* pairwise disjoint and contiguous from position 0: a position is covered
\* by exactly one pattern while it is below the sum of all the minimums,
\* and by none from there on.
C34_OrderRanges ==
    LET total == SumMinimums(InOrderPatterns)
    IN /\ \A fp \in InOrderPatterns :
             /\ RangeOf(fp).start >= 0
             /\ RangeOf(fp).end = RangeOf(fp).start + MinimumOf(fp)
       /\ \A fp, gq \in InOrderPatterns :
             fp # gq => \/ RangeOf(fp).end <= RangeOf(gq).start
                        \/ RangeOf(gq).end <= RangeOf(fp).start
       /\ current_call_index = total
       /\ \A pos \in 0..(total + 1) :
             Cardinality(CoveringPosition(pos)) = IF pos < total THEN 1 ELSE 0

\* C34 witness: a pattern of two calls for one function and a pattern of
\* three for another hold the positions 0..1 and 2..4, and the first call,
\* made to the second function, found position 0 covered by no pattern of
\* its own
C34_Witness ==
    /\ \E fp, gq \in InOrderPatterns :
          /\ fp[1] # gq[1]
          /\ RangeOf(fp) = [start |-> 0, end |-> 2]
          /\ RangeOf(gq) = [start |-> 2, end |-> 5]
          /\ last.f = gq[1]
          /\ CoveringPosition(0) = {fp}
    /\ last.order = 0
    /\ last.error = "CallOrderNotMatchedForMockFn"

\* a pattern of no calls between two others holds no position
C34_WitnessEmpty ==
    \E fp, gq \in InOrderPatterns :
        /\ RangeOf(fp) = [start |-> 0, end |-> 0]
        /\ RangeOf(gq) = [start |-> 0, end |-> 1]
        /\ CoveringPosition(0) = {gq}


\* the response indices of the responders, in order
ResponseIndices(responders) ==
    [i \in 1..Len(responders) |-> responders[i].response_index]

NonDecreasing(responders) ==
    \A i, j \in 1..Len(responders) :
        i < j => responders[i].response_index <= responders[j].response_index

\* C35: the binary search and the scan. For the responders of the pattern a
\* call selected, sorted by non-decreasing response index, and the call's
\* local index, find_responder_by_call_index and select_responder_for_call
\* give the same responder, or both give none.
C35_SearchEqualsScan ==
    (LastSelected /\ NonDecreasing(LastPattern.responders)) =>
        find_responder_by_call_index(LastPattern.responders, LastLocal)
            = { select_responder_for_call(LastPattern.responders, LastLocal) }

\* the failing input: responders at the response indices 0, 2, 2, as made by
\* returns(a).n_times(2).then().returns(b).n_times(0).then().returns(c),
\* and the call with local index 2. The scan gives the third responder; the
\* binary search may give the second as well.
C35_FailingInput ==
    /\ LastSelected
    /\ ResponseIndices(LastPattern.responders) = << 0, 2, 2 >>
    /\ LastLocal = 2
    /\ select_responder_for_call(LastPattern.responders, LastLocal) = 3
    /\ find_responder_by_call_index(LastPattern.responders, LastLocal) = {2, 3}
    /\ last.tag = "Evaluated"
    /\ last.value = LastPattern.responders[3].responder.value

\* two responders of the pattern the most recent call selected, the
\* earlier one of a stage quantified with no calls, at one response index
SharedIndex(i, j) ==
    /\ i \in 1..Len(LastPattern.responders)
    /\ j \in 1..Len(LastPattern.responders)
    /\ i < j
    /\ LastPattern.responders[i].response_index
          = LastPattern.responders[j].response_index

\* C36: a stage of no calls. When two responders of a pattern share a
\* response index, no call selects the earlier one, neither by the scan nor
\* by the binary search: a call at or after that index selects a responder
\* registered later.
C36_ZeroCountStageSkipped ==
    LastSelected =>
        \A i, j \in 1..MaxStages :
            (SharedIndex(i, j)
             /\ LastPattern.responders[i].response_index <= LastLocal) =>
                /\ select_responder_for_call(LastPattern.responders, LastLocal)
                      > i
                /\ \A k \in find_responder_by_call_index(
                                LastPattern.responders, LastLocal) : k > i

\* the scan alone: with two responders at response index 0, the call with
\* local index 0 got the value of the second
C36_ScanSkips ==
    /\ LastSelected
    /\ ResponseIndices(LastPattern.responders) = << 0, 0 >>
    /\ LastLocal = 0
    /\ last.tag = "Evaluated"
    /\ last.value = LastPattern.responders[2].responder.value
    /\ 1 \in find_responder_by_call_index(LastPattern.responders, LastLocal)


\* the failing input: three responders at response index 0, as made by
\* returns(a).n_times(0).then().returns(b).n_times(0).then().returns(c),
\* and the call with local index 0. The scan gives the third responder; the
\* binary search may give one of the two stages quantified with no calls.
C36_FailingInput ==
    /\ LastSelected
    /\ ResponseIndices(LastPattern.responders) = << 0, 0, 0 >>
    /\ LastLocal = 0
    /\ select_responder_for_call(LastPattern.responders, LastLocal) = 3
    /\ {1, 2} \subseteq
          find_responder_by_call_index(LastPattern.responders, LastLocal)


\* the builders under construction: the one the chain owns, and those of
\* the stub in progress
Builders ==
    (IF chain.wrapper = "Owned" THEN {chain.builder} ELSE {})
    \cup { each.patterns[i] : i \in 1..Len(each.patterns) }

\* C37: the response indices of a builder. After any sequence of builder
\* operations the responders of the builder are in non-decreasing order of
\* response index, the first is at response index 0, each is at the sum of
\* the counts of the quantify steps made before it was pushed, and the
\* builder's current response index is the accumulated minimum call count.
C37_BuilderIndices ==
    \A b \in Builders :
        /\ NonDecreasing(b.responders)
        /\ b.responders # << >> => b.responders[1].response_index = 0
        /\ \A i \in 1..Len(b.responders) :
              /\ i - 1 <= Len(b.quantified)
              /\ b.responders[i].response_index = StageStart(b, i)
        /\ b.current_response_index = SumSeq(Times(b))
        /\ b.current_response_index = b.count_expectation.minimum

\* C37 witness: returns(..).n_times(2).then().returns(..).n_times(3).then()
\* .returns(..) put the responders at 0, 2 and 5, and the current response
\* index and the minimum are 5
C37_Witness ==
    /\ chain.wrapper = "Owned"
    /\ ResponseIndices(chain.builder.responders) = << 0, 2, 5 >>
    /\ Times(chain.builder) = << 2, 3 >>
    /\ chain.builder.current_response_index = 5
    /\ chain.builder.count_expectation.minimum = 5

\* a builder of a stub, quantified once after its response
C37_WitnessStub ==
    /\ each.active
    /\ \E i \in 1..Len(each.patterns) :
          /\ ResponseIndices(each.patterns[i].responders) = << 0 >>
          /\ Times(each.patterns[i]) = << 1 >>
          /\ each.patterns[i].current_response_index = 1

\* the second responder pushed after a stage of no calls
C37_WitnessZero ==
    /\ chain.wrapper = "Owned"
    /\ ResponseIndices(chain.builder.responders) = << 0, 0 >>
    /\ Times(chain.builder) = << 0 >>
    /\ chain.builder.current_response_index = 0


\* the step is a call of quantify on the chain's builder
QuantifyStep ==
    /\ chain.wrapper = "Owned" /\ chain'.wrapper = "Owned"
    /\ Len(chain'.builder.quantified) = Len(chain.builder.quantified) + 1

\* no responder has been pushed for the stage the builder is at: every
\* responder pushed so far has had its quantify step
NoResponderForStage(b) == Len(b.responders) <= Len(b.quantified)

\* C38: quantify without a responder. A call of quantify on a builder
\* stage for which no responder has been pushed fails, and leaves the
\* current response index and the count expectation as they were.
C38_QuantifyNeedsResponder ==
    [][(QuantifyStep /\ NoResponderForStage(chain.builder)) =>
          /\ phase' = "failed"
          /\ chain'.builder.current_response_index
                = chain.builder.current_response_index
          /\ chain'.builder.count_expectation
                = chain.builder.count_expectation]_vars

\* the failing input: quantify(2, Exact) on a builder fresh from
\* DynCallPatternBuilder::new went through, and the builder now expects
\* exactly two calls from response index 2 on, with no responder
C38_FailingInput ==
    /\ phase = "build"
    /\ chain.wrapper = "Owned"
    /\ chain.builder.responders = << >>
    /\ chain.builder.quantified = << [times |-> 2, exactness |-> "Exact"] >>
    /\ chain.builder.current_response_index = 2
    /\ chain.builder.count_expectation = [minimum |-> 2, exactness |-> "Exact"]

\* the fluent API keeps to the order: in no builder it makes is a stage
\* quantified before its responder is pushed
C38_ApiPushesFirst ==
    \A b \in Builders : Len(b.quantified) <= Len(b.responders)


\* the calls that have taken a local call index from this pattern, each as
\* << thread, number >>: those completed, and the one a thread is inside of
\* (number 0)
CountedCalls(f, p) ==
    SelectedPattern(f, p) \cup { << t, 0 >> : t \in CountedInFlight(f, p) }

\* the local call index the call took, and the responder it selected
LocalOf(c) ==
    IF c[2] = 0 THEN threads[c[1]].local ELSE ThreadResult(c).local

PosOf(c) ==
    IF c[2] = 0 THEN threads[c[1]].pos ELSE ThreadResult(c).pos

\* C39: the call counter under concurrent calls. The calls that select one
\* pattern, in any interleaving of the threads, lose no update of its
\* counter and get pairwise distinct local call indices: after N such calls
\* the counter is N and the indices are 0..N-1. For a pattern in stages each
\* stage answers as many of the calls as there are indices of its own among
\* 0..N-1: the first n0 the first stage, the next n1 the second, and so on;
\* and a call that got an output got the value of its stage.
C39_DistinctLocalIndices ==
    \A fp \in Registered :
        LET f == fp[1]
            p == fp[2]
            pattern == impls[f].patterns[p]
            calls == CountedCalls(f, p)
            N == pattern.call_counter
        IN /\ Cardinality(calls) = N
           /\ \A c, d \in calls : c # d => LocalOf(c) # LocalOf(d)
           /\ { LocalOf(c) : c \in calls } = 0..(N - 1)
           /\ \A j \in 1..Len(pattern.responders) :
                 Cardinality({ c \in calls : PosOf(c) = j })
                    = Cardinality({ k \in 0..(N - 1) : StageOf(pattern, k) = j })
           /\ \A c \in SelectedPattern(f, p) :
                 ThreadResult(c).tag = "Evaluated" =>
                    ThreadResult(c).value
                       = pattern.responders[StageOf(pattern, ThreadResult(c).local)]
                            .responder.value

\* C39 witness: two threads called a pattern of two stages, the first
\* quantified with one call, at the same time; the thread that was counted
\* second finished first; one got the first stage's value and one the
\* second's
C39_Witness ==
    \E c, d \in ThreadResults :
        /\ c[1] # d[1]
        /\ ThreadResult(c).pat_index = 0 /\ ThreadResult(d).pat_index = 0
        /\ Len(impls[ThreadResult(c).f].patterns) = 1
        /\ Times(impls[ThreadResult(c).f].patterns[1]) = << 1 >>
        /\ Len(impls[ThreadResult(c).f].patterns[1].responders) = 2
        /\ impls[ThreadResult(c).f].patterns[1].call_counter = 2
        /\ ThreadResult(c).local = 0 /\ ThreadResult(c).pos = 1
        /\ ThreadResult(d).local = 1 /\ ThreadResult(d).pos = 2
        /\ ThreadResult(c).tag = "Evaluated" /\ ThreadResult(d).tag = "Evaluated"
        /\ ThreadResult(c).value # ThreadResult(d).value

\* both threads are inside their calls, counted and not yet answered, with
\* the local call indices 0 and 1
C39_WitnessInFlight ==
    \E t, u \in Threads :
        /\ t # u
        /\ threads[t].pc = "counted" /\ threads[u].pc = "counted"
        /\ threads[t].pat = threads[u].pat
        /\ threads[t].local = 0 /\ threads[u].local = 1
        /\ threads[t].pos # threads[u].pos

=============================================================================
